---- MODULE Spec2Model ----
(***************************************************************************)
(* Observability control plane for a Docker Compose stack: the facade     *)
(* (ComposeServiceManager), the two background pollers (HealthMonitor,    *)
(* TelemetryAggregator) and the request-driven TraceService, as one       *)
(* state machine.  All of it runs on one asyncio event loop: a step of    *)
(* the model is the code a coroutine runs between two suspension points.  *)
(***************************************************************************)
EXTENDS Integers, Sequences, FiniteSets, TLC

\* ------------------------------------------------------------------------
\* Bounds of the model
\* ------------------------------------------------------------------------
\* the monotonic clock stops at MaxTime
MaxTime == 1
\* iterations of its poll loop a monitor may begin
MaxSweeps == 2
\* start() calls made per monitor
MaxStarts == 2
\* outbound GETs of the trace service that are counted
MaxHttp == 2
\* services a developer removes from the Compose file while the daemon runs
MaxEdits == 1
\* health URLs a service's metadata lists
MaxUrls == 3
\* the largest COUNT an outcome query of an endpoint reports
MaxCount == 2
\* spans of a trace payload
MaxSpans == 4
\* containers the engine lists for one service
MaxContainers == 3
\* entries of a service's depends_on
MaxDepends == 2
\* entries of a service's `ports`
MaxPorts == 2

\* API requests served one after the other
MaxRequests == 3

\* the pairs of a service among which a query of a sweep can fail
MaxFailing == 2

\* spans of a trace object of a response
MaxTraceSpans == 2

\* ------------------------------------------------------------------------
\* Values
\* ------------------------------------------------------------------------
None == "None"

\* DockerSettings.config_cache_ttl_seconds (ge=1, le=120): the smallest TTL
\* the settings accept
config_cache_ttl_seconds == 1

\* the services of the merged Compose configuration when the daemon starts,
\* in the order of its `services` mapping
ComposeProject == <<"api", "db", "web">>

\* the one discovery root of the settings, when one is configured
Root == "root"

ServiceNames == {ComposeProject[i] : i \in 1..Len(ComposeProject)}

Monitors == {"health", "telemetry"}

\* the slots for loop tasks: asyncio.create_task fills the first free one
TaskIds == {1, 2}

Requests == {"r1", "r2"}

Callers == {"c1", "c2"}

TraceIds == {"abc123", "ffff00"}

\* DiagnosticError codes raised by the facade
DiagnosticCodes == {"DockerUnavailable", "ComposeDiscoveryRootsMissing",
                    "ComposeBinaryMissing", "ComposeConfigFailed"}

VARIABLES
    \* settings and environment
    discovery_roots,     \* DockerSettings.discovery_roots
    binary_on_path,      \* shutil.which(compose_cmd[0]) is not None
    trace_provider_url,  \* TelemetrySettings.trace_provider_url
    engine,              \* what the Docker Engine does to a new client
    compose_file,        \* the services of the Compose file on disk, in order
    now,                 \* time.monotonic()
    \* ComposeServiceManager
    compose_cache,       \* self._compose_cache, as its set of entries
    docker,              \* self._docker
    docker_handles,      \* the DockerClient objects from_env() has returned
    \* HealthMonitor / TelemetryAggregator
    task_ref,            \* self._task, per monitor (0 is None)
    store,               \* self._snapshots / self._metrics, per monitor
    loops,               \* the asyncio tasks running _poll_loop
    sweeps,              \* loop iterations begun, per monitor
    starts,              \* start() calls made, per monitor
    stop_called,         \* whether stop() was ever called, per monitor
    stoppers,            \* stop() calls suspended in `await self._task`
    \* TraceService and API requests
    trace_client,        \* self._client
    http_requests,       \* GETs sent to the trace backend
    req,                 \* the API requests being served
    \* one call of a helper, followed from its arguments to its result
    probe,               \* HealthMonitor._probe_service
    query,               \* TelemetryAggregator._query_endpoint_metrics
    summary,             \* _summarize_trace
    invoked,             \* a facade method or one of its module-level helpers
    \* the application
    lifespan,            \* lifespan_dependencies: where the context manager is
    returned             \* what latest() returned to a reader, per monitor

vars == <<discovery_roots, binary_on_path, trace_provider_url, engine, compose_file, now,
          compose_cache, docker, docker_handles, task_ref, store, loops, sweeps, starts,
          stop_called, stoppers, trace_client, http_requests, req, probe, query, summary,
          invoked, lifespan, returned>>

env_vars == <<discovery_roots, binary_on_path, trace_provider_url, engine, compose_file>>

monitor_vars == <<task_ref, store, loops, sweeps, starts, stop_called, stoppers>>

trace_vars == <<trace_client, http_requests>>

call_vars == <<probe, query, summary, invoked, lifespan, returned>>

\* ------------------------------------------------------------------------
\* ComposeServiceManager: discovery and its config cache
\* ------------------------------------------------------------------------

\* _load_compose_config using an entry whose age has reached the TTL
CacheFresh_inclusive ==
    \E cached \in compose_cache :
        /\ cached.root = Root
        /\ now - cached.timestamp <= config_cache_ttl_seconds

\* _load_compose_config, first critical section: the cached entry is used
\* while monotonic() - cached.timestamp < config_cache_ttl_seconds
CacheFresh ==
    \E cached \in compose_cache :
        /\ cached.root = Root
        /\ now - cached.timestamp < config_cache_ttl_seconds

\* discovered_services looking for the binary before the roots, as
\* _run_compose_command does
discovered_services_binary_first ==
    IF ~binary_on_path THEN "ComposeBinaryMissing"
    ELSE IF discovery_roots = <<>> THEN "ComposeDiscoveryRootsMissing"
    ELSE IF CacheFresh THEN "hit"
    ELSE "miss"

\* discovered_services up to its first suspension point: the diagnostic it
\* raises, "hit" when the cached config is returned without suspending, or
\* "miss" when `docker compose config` is spawned
discovered_services ==
    IF discovery_roots = <<>> THEN "ComposeDiscoveryRootsMissing"
    ELSE IF ~binary_on_path THEN "ComposeBinaryMissing"
    ELSE IF CacheFresh THEN "hit"
    ELSE "miss"

\* what `docker compose config` can end with: exit 0 with JSON, a non-zero
\* exit, exit 0 with output json.loads rejects
SubprocessOutcomes == {"ok", "nonzero", "garbled"}

\* what process.communicate() can capture from the subprocess's stderr
StderrTexts == {"no configuration file provided: not found",
                "services.web.ports must be a list"}

\* _load_compose_config after process.communicate(): the error raised, or
\* "services" when the config was parsed
load_compose_config_result(outcome) ==
    IF outcome = "nonzero" THEN "ComposeConfigFailed"
    ELSE IF outcome = "garbled" THEN "JSONDecodeError"
    ELSE "services"

\* _load_compose_config writing an entry whatever the exit status: an empty
\* config after a failure
load_compose_config_cache_any_exit(outcome) ==
    {e \in compose_cache : e.root # Root}
    \cup {[root |-> Root, timestamp |-> now,
           config |-> IF outcome = "ok" THEN compose_file ELSE <<>>]}

\* _load_compose_config, second critical section: the entry written on
\* exit 0 holds what the subprocess resolved from the file
load_compose_config_cache(outcome) ==
    IF outcome = "ok"
    THEN {e \in compose_cache : e.root # Root}
         \cup {[root |-> Root, timestamp |-> now, config |-> compose_file]}
    ELSE compose_cache

\* `cached.config` of the entry of the root
cached_config == (CHOOSE cached \in compose_cache : cached.root = Root).config

\* a developer removes a service from the Compose file
compose_file_edit ==
    /\ Len(ComposeProject) - Len(compose_file) < MaxEdits
    /\ \E s \in ServiceNames :
          /\ \E i \in 1..Len(compose_file) : compose_file[i] = s
          /\ compose_file' = SelectSeq(compose_file, LAMBDA x : x # s)
    /\ UNCHANGED <<discovery_roots, binary_on_path, trace_provider_url, engine, now,
                   compose_cache, docker, docker_handles, monitor_vars, trace_vars, req, call_vars>>

\* the callers whose `docker compose config` subprocess is running
ResolvingRequests == {r \in Requests : req[r].pc = "resolving"}

ResolvingLoops == {t \in TaskIds : loops[t].pc = "resolving"}

\* ------------------------------------------------------------------------
\* API requests
\* ------------------------------------------------------------------------
NoResponse == [mode |-> "none"]

\* called_at is the clock when the call was made, spawned whether the call
\* started a `docker compose config` subprocess, exit and stderr how the
\* subprocess of a url_index call ended and what it wrote to stderr
IdleRequest ==
    [op |-> "idle", pc |-> "idle", trace_id |-> None, get |-> None,
     corr |-> NoResponse, response |-> NoResponse, called_at |-> 0, spawned |-> FALSE,
     exit |-> None, stderr |-> None]

\* url_index: the index built from the services of a config
IndexResponse(config) == [mode |-> "index", services |-> config]

ErrorResponse(code, origin) == [mode |-> "error", code |-> code, raised_by |-> origin]

\* DiagnosticError("ComposeConfigFailed", ..., detail=stderr.decode())
compose_config_failed(stderr) ==
    [mode |-> "error", code |-> "ComposeConfigFailed",
     raised_by |-> "discovered_services", detail |-> stderr]

\* url_index after `await self.discovered_services(...)`: the index, or the
\* error discovery raised
url_index_after(r, result, stderr) ==
    IF result = "services"
    THEN [req[r] EXCEPT !.pc = "done", !.response = IndexResponse(compose_file)]
    ELSE IF result = "ComposeConfigFailed"
    THEN [req[r] EXCEPT !.pc = "done", !.response = compose_config_failed(stderr)]
    ELSE [req[r] EXCEPT !.pc = "done",
                        !.response = ErrorResponse(result, "discovered_services")]

\* an API request calls url_index()
url_index(r) ==
    /\ req[r].pc = "idle"
    /\ LET d == discovered_services
           call == [IdleRequest EXCEPT !.op = "url_index", !.called_at = now]
       IN req' = [req EXCEPT ![r] =
                    IF d = "miss" THEN [call EXCEPT !.pc = "resolving", !.spawned = TRUE]
                    ELSE IF d = "hit"
                         THEN [call EXCEPT !.pc = "done",
                                           !.response = IndexResponse(cached_config)]
                         ELSE [call EXCEPT !.pc = "done",
                                           !.response = ErrorResponse(d, "discovered_services")]]
    /\ UNCHANGED <<env_vars, call_vars, now, compose_cache, docker, docker_handles, monitor_vars, trace_vars>>

\* the `docker compose config` subprocess of a url_index request exits
url_index_config_exit(r, outcome) ==
    /\ req[r].op = "url_index"
    /\ req[r].pc = "resolving"
    /\ compose_cache' = load_compose_config_cache(outcome)
    /\ \E stderr \in StderrTexts :
          req' = [req EXCEPT ![r] =
                    [url_index_after(r, load_compose_config_result(outcome), stderr)
                        EXCEPT !.exit = outcome, !.stderr = stderr]]
    /\ UNCHANGED <<env_vars, call_vars, now, docker, docker_handles, monitor_vars, trace_vars>>

\* ------------------------------------------------------------------------
\* TraceService.fetch_trace and ComposeServiceManager.logs_for_trace
\* ------------------------------------------------------------------------

\* TelemetrySettings.log_correlation_tail_lines (ge=50, le=5000): the
\* smallest tail the settings accept
log_correlation_tail_lines == 50

\* the log of the one container of each service: per line, the trace
\* identifiers its text contains
ContainerLogs ==
    [s \in ServiceNames |->
        IF s = "api" THEN <<{"abc123"}, {}, {"abc123", "ffff00"}>>
        ELSE IF s = "db" THEN <<{"ffff00"}, {}>>
        ELSE <<>>]

\* container.logs(tail=n): the last n lines
LogTail(log, n) ==
    IF Len(log) <= n THEN log ELSE SubSeq(log, Len(log) - n + 1, Len(log))

\* the lines of one container that contain trace_id, each tagged with its
\* service (and that service's container)
MatchesOf(s, trace_id) ==
    LET log == LogTail(ContainerLogs[s], log_correlation_tail_lines)
        tagged == [i \in 1..Len(log) |-> [service |-> s, line |-> i, ids |-> log[i]]]
    IN SelectSeq(tagged, LAMBDA l : trace_id \in l.ids)

RECURSIVE MatchesFrom(_, _)
MatchesFrom(i, trace_id) ==
    IF i > Len(ComposeProject) THEN <<>>
    ELSE MatchesOf(ComposeProject[i], trace_id) \o MatchesFrom(i + 1, trace_id)

\* logs_for_trace: the matches of every service, in discovery order
logs_for_trace(trace_id) == MatchesFrom(1, trace_id)

\* how the GET to <provider>/api/traces/<id> can end: 2xx with a JSON body,
\* 2xx with a body response.json() rejects, a non-2xx status
\* (HTTPStatusError), a transport error (RequestError)
GetOutcomes == {"ok", "garbled", "status_error", "transport_error"}

\* fetch_trace without its no-provider branch
fetch_trace_always_uses_provider == TRUE

\* fetch_trace: `if self._settings.trace_provider_url is None` fails
fetch_trace_uses_provider == trace_provider_url # None

\* fetch_trace catching httpx.RequestError only
fetch_trace_catches_transport_only(outcome) == outcome = "transport_error"

\* fetch_trace: `except httpx.HTTPError` catches HTTPStatusError and
\* RequestError
fetch_trace_falls_back(outcome) == outcome \in {"status_error", "transport_error"}

\* logs_for_trace raised: fetch_trace has no handler for it
correlation_raised(rec, code) ==
    [rec EXCEPT !.pc = "done",
                !.corr = [mode |-> "raised", code |-> code],
                !.response = ErrorResponse(code, "logs_for_trace")]

\* logs_for_trace after `client = await self._client()`: discovery, then
\* the containers of every service are listed and their logs read
logs_for_trace_discover(rec) ==
    LET d == discovered_services
    IN IF d = "hit" THEN [rec EXCEPT !.pc = "scanning"]
       ELSE IF d = "miss" THEN [rec EXCEPT !.pc = "resolving", !.spawned = TRUE]
       ELSE correlation_raised(rec, d)

\* logs_for_trace up to its first suspension point.  _client() returns the
\* cached handle; without one, DockerClient.from_env() either raises
\* (DockerUnavailable) or its handle is stored and pinged in a thread
logs_for_trace_call(rec) ==
    LET called == [rec EXCEPT !.corr = [mode |-> "running"]]
    IN IF docker # None THEN logs_for_trace_discover(called)
       ELSE IF engine = "misconfigured" THEN correlation_raised(called, "DockerUnavailable")
       ELSE [called EXCEPT !.pc = "pinging"]

\* _client() constructing a handle on every call
from_env_called_always == TRUE

\* _client(): `if self._docker is None`, under which from_env() is called
from_env_called == docker = None

\* self._docker after _client() ran up to its suspension point
client_handle ==
    IF from_env_called /\ engine # "misconfigured" THEN "client" ELSE docker

\* the handles constructed so far, after _client() ran up to its
\* suspension point
client_handles ==
    IF from_env_called /\ engine # "misconfigured" THEN docker_handles + 1
    ELSE docker_handles

\* fetch_trace(trace_id) up to its first suspension point
fetch_trace(r, trace_id) ==
    /\ req[r].pc = "idle"
    /\ LET call == [IdleRequest EXCEPT !.op = "fetch_trace", !.trace_id = trace_id]
       IN IF fetch_trace_uses_provider
          THEN /\ http_requests < MaxHttp
               /\ trace_client' = "client"
               /\ http_requests' = http_requests + 1
               /\ req' = [req EXCEPT ![r] = [call EXCEPT !.pc = "get"]]
               /\ UNCHANGED <<docker, docker_handles>>
          ELSE /\ req' = [req EXCEPT ![r] = logs_for_trace_call(call)]
               /\ docker' = client_handle
               /\ docker_handles' = client_handles
               /\ UNCHANGED trace_vars
    /\ UNCHANGED <<env_vars, call_vars, now, compose_cache, monitor_vars>>

\* the response to a trace: _summarize_trace of the payload
trace_response(trace_id) == [mode |-> "trace", trace_id |-> trace_id]

\* the GET of fetch_trace ends
fetch_trace_get_done(r, outcome) ==
    /\ req[r].pc = "get"
    /\ LET got == [req[r] EXCEPT !.get = outcome]
       IN IF fetch_trace_falls_back(outcome)
          THEN /\ req' = [req EXCEPT ![r] = logs_for_trace_call(got)]
               /\ docker' = client_handle
               /\ docker_handles' = client_handles
          ELSE /\ req' = [req EXCEPT ![r] =
                     IF outcome \in {"status_error", "transport_error"}
                     THEN [got EXCEPT !.pc = "done", !.response = ErrorResponse("HTTPError", "get")]
                     ELSE IF outcome = "garbled"
                     THEN [got EXCEPT !.pc = "done",
                                      !.response = ErrorResponse("JSONDecodeError", "response.json")]
                     ELSE [got EXCEPT !.pc = "done", !.response = trace_response(got.trace_id)]]
               /\ UNCHANGED <<docker, docker_handles>>
    /\ UNCHANGED <<env_vars, call_vars, now, compose_cache, monitor_vars, trace_vars>>

\* _client(): the ping of a new handle ends; a failed ping raises
\* DockerUnavailable and leaves the handle in self._docker
client_ping_done(r) ==
    /\ req[r].pc = "pinging"
    /\ req' = [req EXCEPT ![r] =
            IF engine = "down" THEN correlation_raised(req[r], "DockerUnavailable")
            ELSE logs_for_trace_discover(req[r])]
    /\ UNCHANGED <<env_vars, call_vars, now, compose_cache, docker, docker_handles, monitor_vars, trace_vars>>

\* the `docker compose config` subprocess of a logs_for_trace call exits
logs_for_trace_config_exit(r, outcome) ==
    /\ req[r].op = "fetch_trace"
    /\ req[r].pc = "resolving"
    /\ compose_cache' = load_compose_config_cache(outcome)
    /\ LET result == load_compose_config_result(outcome)
       IN req' = [req EXCEPT ![r] =
                IF result = "services" THEN [req[r] EXCEPT !.pc = "scanning"]
                ELSE correlation_raised(req[r], result)]
    /\ UNCHANGED <<env_vars, call_vars, now, docker, docker_handles, monitor_vars, trace_vars>>

\* fetch_trace: the result built from the lines of logs_for_trace
logs_response(trace_id, lines) ==
    [mode |-> "logs", trace_id |-> trace_id, lines |-> lines]

\* the container listing and log reads of logs_for_trace end: with the
\* matching lines, or with the docker error of a failed call
logs_for_trace_done(r, outcome) ==
    /\ req[r].pc = "scanning"
    /\ req' = [req EXCEPT ![r] =
            IF outcome = "docker_error" THEN correlation_raised(req[r], "DockerException")
            ELSE LET lines == logs_for_trace(req[r].trace_id)
                 IN [req[r] EXCEPT !.pc = "done",
                                   !.corr = [mode |-> "lines", lines |-> lines],
                                   !.response = logs_response(req[r].trace_id, lines)]]
    /\ UNCHANGED <<env_vars, call_vars, now, compose_cache, docker, docker_handles, monitor_vars, trace_vars>>

\* the response of a finished request is delivered
request_return(r) ==
    /\ req[r].pc = "done"
    /\ req' = [req EXCEPT ![r] = IdleRequest]
    /\ UNCHANGED <<env_vars, call_vars, now, compose_cache, docker, docker_handles, monitor_vars, trace_vars>>

\* time passes
Tick ==
    /\ now < MaxTime
    /\ now' = now + 1
    /\ UNCHANGED <<env_vars, call_vars, compose_cache, docker, docker_handles, monitor_vars, trace_vars, req>>

\* ------------------------------------------------------------------------
\* HealthMonitor and TelemetryAggregator
\* ------------------------------------------------------------------------
NoResults == [s \in ServiceNames |-> "none"]

\* a task slot: pc is "none" until asyncio.create_task fills the slot;
\* abandoned tells that the task was cancelled while its gather was pending
IdleLoop ==
    [mon |-> None, pc |-> "none", sweep |-> 0, results |-> NoResults, abandoned |-> FALSE]

IdleCaller == [mon |-> None, task |-> 0]

\* the value of a key a dict does not hold
NoEntry == [sweep |-> 0, value |-> "absent"]

\* a task is done once its coroutine has ended
Done(t) == loops[t].pc \in {"cancelled", "crashed"}

Alive(t) == loops[t].pc \notin {"none", "cancelled", "crashed"}

\* the service at a position of the gather's result list, and back
Position(i) == ComposeProject[i]

IndexOf(s) == CHOOSE i \in 1..Len(ComposeProject) : ComposeProject[i] = s

\* _probe_service ends with a HealthSnapshot (healthy, or unhealthy when
\* every URL failed with an HTTP status or transport error) or raises (a
\* 2xx body response.json() rejects); _fetch_metrics ends with
\* (name, metrics), with (name, RuntimeError) when every URL failed with an
\* httpx.HTTPError, or raises
ProbeOutcomes(m) ==
    IF m = "health" THEN {"healthy", "unhealthy", "raised"}
    ELSE {"metrics", "unavailable", "raised"}

\* latest(): a copy of the dict
latest(m) ==
    [s \in {x \in ServiceNames : store[m][x] # NoEntry} |-> store[m][s]]

\* the health publication had the gather let the first exception through:
\* it would reach `except Exception` and no snapshot would be stored
health_publish_unisolated(old, results, k) ==
    IF \E s \in ServiceNames : results[s] = "raised" THEN old
    ELSE [s \in ServiceNames |->
            IF results[s] \in {"healthy", "unhealthy"}
            THEN [sweep |-> k, value |-> results[s]]
            ELSE old[s]]

\* the health publication had it removed the snapshot of every service
\* whose probe gave none
health_publish_drops_unresolved(old, results, k) ==
    [s \in ServiceNames |->
        IF results[s] \in {"healthy", "unhealthy"}
        THEN [sweep |-> k, value |-> results[s]]
        ELSE NoEntry]

\* HealthMonitor._poll_loop after gather(return_exceptions=True): every
\* HealthSnapshot among the results is stored, every exception is logged
health_publish(old, results, k) ==
    [s \in ServiceNames |->
        IF results[s] \in {"healthy", "unhealthy"}
        THEN [sweep |-> k, value |-> results[s]]
        ELSE old[s]]

\* the first result of the gather that is an exception object
FirstRaised(results) ==
    IF \E i \in 1..Len(ComposeProject) : results[Position(i)] = "raised"
    THEN CHOOSE i \in 1..Len(ComposeProject) :
            /\ results[Position(i)] = "raised"
            /\ \A j \in 1..(i - 1) : results[Position(j)] # "raised"
    ELSE Len(ComposeProject) + 1

\* TelemetryAggregator._poll_loop after gather(return_exceptions=True):
\* `for service_name, metrics in results` stores the metrics of each tuple
\* and skips a tuple holding an exception; unpacking an exception object
\* raises TypeError, which ends the for loop
telemetry_publish(old, results, k) ==
    [s \in ServiceNames |->
        IF results[s] = "metrics" /\ IndexOf(s) < FirstRaised(results)
        THEN [sweep |-> k, value |-> "metrics"]
        ELSE old[s]]

publish(m, old, results, k) ==
    IF m = "health" THEN health_publish(old, results, k)
    ELSE telemetry_publish(old, results, k)

\* where an error raised while listing services leaves the loop.  The
\* health loop logs a DiagnosticError with extra=diagnostic.to_extra(),
\* whose "message" key logging.makeRecord rejects with KeyError: raised in
\* the except clause, it ends the coroutine.  Every other error is logged
\* by the `except Exception` clause and the loop goes to sleep.
poll_loop_after_error(m, error) ==
    IF m = "health" /\ error \in DiagnosticCodes THEN "crashed" ELSE "sleeping"

\* start() without its guard
start_spawns_always(m) == TRUE

\* start(): `if self._task is None`
start_spawns(m) == task_ref[m] = 0

FreeTasks == {t \in TaskIds : loops[t].pc = "none"}

\* start()
start(m) ==
    /\ starts[m] < MaxStarts
    /\ starts' = [starts EXCEPT ![m] = @ + 1]
    /\ IF start_spawns(m)
       THEN /\ FreeTasks # {}
            /\ LET t == CHOOSE x \in FreeTasks : \A y \in FreeTasks : x <= y
               IN /\ loops' = [loops EXCEPT ![t] = [IdleLoop EXCEPT !.mon = m, !.pc = "created"]]
                  /\ task_ref' = [task_ref EXCEPT ![m] = t]
       ELSE UNCHANGED <<loops, task_ref>>
    /\ UNCHANGED <<env_vars, call_vars, now, compose_cache, docker, docker_handles, store, sweeps, stop_called,
                   stoppers, trace_vars, req>>

\* Task.cancel(): a task that is not done gets CancelledError at its
\* suspension point
cancel(t) ==
    IF Done(t) THEN loops
    ELSE [loops EXCEPT ![t] = [@ EXCEPT !.pc = "cancelling",
                                        !.abandoned = loops[t].pc = "probing"]]

\* the callers of stop() are interchangeable: the next call is made by
\* the first of them that is not suspended in one
NextCaller ==
    IF stoppers["c1"] = IdleCaller THEN "c1"
    ELSE IF stoppers["c2"] = IdleCaller THEN "c2"
    ELSE "nobody"

\* stop() up to `await self._task`.  Awaiting a task that is done does not
\* suspend: CancelledError is swallowed and self._task set to None, the
\* exception of a crashed task is raised to the caller of stop()
stop(c, m) ==
    /\ c = NextCaller
    /\ stop_called' = [stop_called EXCEPT ![m] = TRUE]
    /\ IF task_ref[m] = 0
       THEN UNCHANGED <<loops, task_ref, stoppers>>
       ELSE LET t == task_ref[m]
            IN /\ loops' = cancel(t)
               /\ IF loops[t].pc = "cancelled"
                  THEN /\ task_ref' = [task_ref EXCEPT ![m] = 0]
                       /\ UNCHANGED stoppers
                  ELSE IF loops[t].pc = "crashed"
                  THEN UNCHANGED <<task_ref, stoppers>>
                  ELSE /\ stoppers' = [stoppers EXCEPT ![c] = [mon |-> m, task |-> t]]
                       /\ UNCHANGED task_ref
    /\ UNCHANGED <<env_vars, call_vars, now, compose_cache, docker, docker_handles, store, sweeps, starts,
                   trace_vars, req>>

\* a cancelled loop storing what its gather had collected before it ends
cancelled_store_drained(t) ==
    [store EXCEPT ![loops[t].mon] =
        publish(loops[t].mon, @,
                [s \in ServiceNames |->
                    IF loops[t].results[s] = "pending" THEN "none" ELSE loops[t].results[s]],
                loops[t].sweep)]

\* the caches when a cancelled loop ends: CancelledError is raised at the
\* loop's await, passes `except Exception`, and nothing is stored
cancelled_store(t) == store

\* the cancelled coroutine ends with CancelledError; what its gather had
\* collected is dropped with it
poll_loop_cancelled(t) ==
    /\ loops[t].pc = "cancelling"
    /\ store' = cancelled_store(t)
    /\ loops' = [loops EXCEPT ![t] = [@ EXCEPT !.pc = "cancelled", !.results = NoResults]]
    /\ UNCHANGED <<env_vars, call_vars, now, compose_cache, docker, docker_handles, task_ref, sweeps, starts,
                   stop_called, stoppers, trace_vars, req>>

\* stop() resumes from `await self._task`: `self._task = None`
stop_resume(c) ==
    /\ stoppers[c] # IdleCaller
    /\ loops[stoppers[c].task].pc = "cancelled"
    /\ task_ref' = [task_ref EXCEPT ![stoppers[c].mon] = 0]
    /\ stoppers' = [stoppers EXCEPT ![c] = IdleCaller]
    /\ UNCHANGED <<env_vars, call_vars, now, compose_cache, docker, docker_handles, store, loops, sweeps, starts,
                   stop_called, trace_vars, req>>

\* the loop state once discovery returned the services: the probes of all
\* of them are gathered
Probing(t, k, services) ==
    [loops[t] EXCEPT !.pc = "probing", !.sweep = k,
                     !.results = [s \in ServiceNames |->
                                    IF \E i \in 1..Len(services) : services[i] = s
                                    THEN "pending" ELSE "none"]]

\* the loops had they asked discovered_services for the live status
poll_include_status_on == TRUE

\* `await self._compose.discovered_services()`: include_status keeps its
\* default, False
poll_include_status == FALSE

\* discovered_services after the configuration is loaded: under
\* `if include_status`, service_status is awaited for every service, and
\* it begins with _client()
poll_docker(services) ==
    IF poll_include_status /\ services # <<>> THEN client_handle ELSE docker

poll_docker_handles(services) ==
    IF poll_include_status /\ services # <<>> THEN client_handles ELSE docker_handles

\* the loop state once discovered_services has ended: with include_status
\* and no engine to reach it raises (DockerUnavailable from _client(), a
\* DockerException from a cached handle), otherwise it returns the services
Listed(t, k, services) ==
    IF poll_include_status /\ services # <<>> /\ engine # "up"
    THEN [loops[t] EXCEPT
            !.pc = poll_loop_after_error(loops[t].mon,
                        IF docker = None THEN "DockerUnavailable" ELSE "DockerException"),
            !.sweep = k, !.results = NoResults]
    ELSE Probing(t, k, services)

\* an iteration of `while True` begins: discovered_services is called
poll_loop(t) ==
    /\ loops[t].pc \in {"created", "sleeping"}
    /\ sweeps[loops[t].mon] < MaxSweeps
    /\ LET m == loops[t].mon
           k == sweeps[m] + 1
           d == discovered_services
       IN /\ sweeps' = [sweeps EXCEPT ![m] = k]
          /\ loops' = [loops EXCEPT ![t] =
                IF d = "hit" THEN Listed(t, k, cached_config)
                ELSE IF d = "miss"
                     THEN [@ EXCEPT !.pc = "resolving", !.sweep = k, !.results = NoResults]
                     ELSE [@ EXCEPT !.pc = poll_loop_after_error(m, d), !.sweep = k,
                                    !.results = NoResults]]
          /\ docker' = IF d = "hit" THEN poll_docker(cached_config) ELSE docker
          /\ docker_handles' = IF d = "hit" THEN poll_docker_handles(cached_config)
                               ELSE docker_handles
    /\ UNCHANGED <<env_vars, call_vars, now, compose_cache, task_ref, store, starts,
                   stop_called, stoppers, trace_vars, req>>

\* the `docker compose config` subprocess of a loop exits
poll_loop_config_exit(t, outcome) ==
    /\ loops[t].pc = "resolving"
    /\ compose_cache' = load_compose_config_cache(outcome)
    /\ LET result == load_compose_config_result(outcome)
       IN /\ loops' = [loops EXCEPT ![t] =
                IF result = "services" THEN Listed(t, loops[t].sweep, compose_file)
                ELSE [@ EXCEPT !.pc = poll_loop_after_error(loops[t].mon, result)]]
          /\ docker' = IF result = "services" THEN poll_docker(compose_file) ELSE docker
          /\ docker_handles' = IF result = "services" THEN poll_docker_handles(compose_file)
                               ELSE docker_handles
    /\ UNCHANGED <<env_vars, call_vars, now, task_ref, store, sweeps, starts, stop_called,
                   stoppers, trace_vars, req>>

\* one probe of the gather resolves
probe_resolves(t, s, outcome) ==
    /\ loops[t].pc = "probing"
    /\ loops[t].results[s] = "pending"
    /\ outcome \in ProbeOutcomes(loops[t].mon)
    /\ loops' = [loops EXCEPT ![t] = [@ EXCEPT !.results = [@ EXCEPT ![s] = outcome]]]
    /\ UNCHANGED <<env_vars, call_vars, now, compose_cache, docker, docker_handles, task_ref, store, sweeps, starts,
                   stop_called, stoppers, trace_vars, req>>

\* the gather returns when every probe has resolved
gather_done(t) == \A s \in ServiceNames : loops[t].results[s] # "pending"

\* the loop resumes from the gather, stores the results and goes to sleep
poll_loop_publish(t) ==
    /\ loops[t].pc = "probing"
    /\ gather_done(t)
    /\ store' = [store EXCEPT ![loops[t].mon] =
                    publish(loops[t].mon, @, loops[t].results, loops[t].sweep)]
    /\ loops' = [loops EXCEPT ![t] = [@ EXCEPT !.pc = "sleeping", !.results = NoResults]]
    /\ UNCHANGED <<env_vars, call_vars, now, compose_cache, docker, docker_handles, task_ref, sweeps, starts,
                   stop_called, stoppers, trace_vars, req>>

\* ------------------------------------------------------------------------
\* HealthMonitor._probe_service: one probe of one service
\* ------------------------------------------------------------------------

\* the health URLs a service's metadata can list, in list order
UrlPool == <<"http://localhost:8080/actuator/health",
             "http://localhost:8081/actuator/health",
             "http://api:8080/actuator/health",
             "http://api:8082/actuator/health">>

\* f"http://{metadata.name}:{_DEFAULT_PORT_GUESS}/actuator/health"
DefaultHealthUrl == "http://api:8080/actuator/health"

\* `urls = metadata.health_urls or (default,)`
probe_urls(health_urls) ==
    IF health_urls = <<>> THEN <<DefaultHealthUrl>> ELSE health_urls

\* how a GET to a health URL can end: 2xx with a JSON body, 2xx with a body
\* response.json() rejects, a non-2xx status, a transport error
HealthGetOutcomes == {"ok", "garbled", "status_error", "transport_error"}

NoSnapshot == [kind |-> "none"]

IdleProbe ==
    [pc |-> "idle", health_urls |-> <<>>, urls |-> <<>>, responses |-> <<>>,
     requested |-> <<>>, errors |-> <<>>, result |-> NoSnapshot]

\* the arguments of a probe: the URL list of the metadata, and how the GET
\* to each URL the probe may request ends
ProbeArguments ==
    {p \in {[IdleProbe EXCEPT !.health_urls = SubSeq(UrlPool, 1, n), !.responses = r] :
                n \in 0..MaxUrls,
                r \in UNION {[1..m -> HealthGetOutcomes] : m \in 1..MaxUrls}} :
        Len(p.responses) = Len(probe_urls(p.health_urls))}

\* the snapshot returned after the for loop: unhealthy, no status code,
\* the first URL, the errors collected
unhealthy_snapshot(urls, errors) ==
    [kind |-> "snapshot", healthy |-> FALSE, status_code |-> None,
     url |-> IF urls # <<>> THEN urls[1] ELSE None,
     details |-> IF errors # <<>> THEN errors ELSE <<"Health endpoint unreachable">>]

\* the snapshot returned from inside the loop
healthy_snapshot(url) ==
    [kind |-> "snapshot", healthy |-> TRUE, status_code |-> 200, url |-> url,
     details |-> <<"payload">>]

\* which outcomes of a GET the two except clauses of the loop catch
probe_catches(outcome) == outcome \in {"status_error", "transport_error"}

\* _probe_service is called: the URL list is fixed and the first GET sent
probe_service ==
    /\ probe.pc = "idle"
    /\ LET urls == probe_urls(probe.health_urls)
       IN probe' = [probe EXCEPT !.pc = "get", !.urls = urls, !.requested = <<urls[1]>>]
    /\ UNCHANGED <<env_vars, now, compose_cache, docker, docker_handles, monitor_vars, trace_vars, req, query, summary, invoked, lifespan, returned>>

\* `await client.get(url)` ends: a 2xx with a JSON body returns the healthy
\* snapshot, a caught error is recorded and the next URL requested (after
\* the last one the unhealthy snapshot is returned), anything else raised
\* leaves the coroutine
probe_service_get_done ==
    /\ probe.pc = "get"
    /\ LET i == Len(probe.requested)
           url == probe.urls[i]
           outcome == probe.responses[i]
           errors == Append(probe.errors, [url |-> url, reason |-> outcome])
       IN probe' =
            IF outcome = "ok"
            THEN [probe EXCEPT !.pc = "done", !.result = healthy_snapshot(url)]
            ELSE IF probe_catches(outcome)
            THEN IF i < Len(probe.urls)
                 THEN [probe EXCEPT !.errors = errors,
                                    !.requested = Append(@, probe.urls[i + 1])]
                 ELSE [probe EXCEPT !.pc = "done", !.errors = errors,
                                    !.result = unhealthy_snapshot(probe.urls, errors)]
            ELSE [probe EXCEPT !.pc = "done",
                               !.result = [kind |-> "raised", error |-> "JSONDecodeError"]]
    /\ UNCHANGED <<env_vars, now, compose_cache, docker, docker_handles, monitor_vars, trace_vars, req, query, summary, invoked, lifespan, returned>>

\* ------------------------------------------------------------------------
\* TelemetryAggregator._query_endpoint_metrics: the datapoint of one
\* endpoint.  A string is the sequence of its pieces ("PERCENTILE_50" is
\* <<"PERCENTILE", "_", "50">>, "0.5" is <<"0", ".", "5">>); a float is
\* counted in thousandths (0.2 is 200, 200.0 is 200000); an optional value
\* is <<>> for None and <<x>> for x.
\* ------------------------------------------------------------------------
NoValue == <<>>

Some(x) == <<x>>

\* the shapes in which an Actuator response carries the median
PercentileShapes == {"none", "PERCENTILE_50", "PERCENTILE_0_5", "VALUE"}

\* the `measurements` of a response: a COUNT statistic when there is one,
\* and the median, 0.2 seconds, in the given shape
Measurements(count, shape) ==
    (IF count = NoValue THEN <<>>
     ELSE <<[statistic |-> <<"COUNT">>, value |-> count[1], percentile |-> NoValue]>>)
    \o (IF shape = "PERCENTILE_50"
        THEN <<[statistic |-> <<"PERCENTILE", "_", "50">>, value |-> 200,
                percentile |-> NoValue]>>
        ELSE IF shape = "PERCENTILE_0_5"
        THEN <<[statistic |-> <<"PERCENTILE", "_", "0", "_", "5">>, value |-> 200,
                percentile |-> NoValue]>>
        ELSE IF shape = "VALUE"
        THEN <<[statistic |-> <<"VALUE">>, value |-> 200,
                percentile |-> Some(<<"0", ".", "5">>)]>>
        ELSE <<>>)

\* the payloads of the percentile query: the values of the `percentile`
\* tag under availableTags, and the measurements
Payloads ==
    {[percentile_tag |-> tag, measurements |-> Measurements(count, shape)] :
        tag \in {<<>>, <<<<"0", ".", "5">>>>},
        count \in {NoValue, Some(0), Some(10)},
        shape \in PercentileShapes}

\* dict assignment and dict.get
DictSet(d, k, v) == [x \in DOMAIN d \cup {k} |-> IF x = k THEN v ELSE d[x]]

DictGet(d, k) == IF k \in DOMAIN d THEN Some(d[k]) ELSE NoValue

EmptyDict == [x \in {} |-> 0]

\* statistic.startswith("PERCENTILE_")
starts_with_percentile(statistic) ==
    Len(statistic) >= 2 /\ statistic[1] = "PERCENTILE" /\ statistic[2] = "_"

\* statistic.split("PERCENTILE_")[-1].replace("_", ".")
percentile_of_statistic(statistic) ==
    LET rest == SubSeq(statistic, 3, Len(statistic))
    IN [i \in 1..Len(rest) |-> IF rest[i] = "_" THEN "." ELSE rest[i]]

\* _extract_percentiles, first loop: every value of the percentile tag is
\* a key with value 0.0
RECURSIVE percentile_keys(_, _)
percentile_keys(values, d) ==
    IF values = <<>> THEN d
    ELSE percentile_keys(Tail(values), DictSet(d, Head(values), 0))

\* _extract_percentiles, second loop: a VALUE measurement with a
\* percentile is stored under that percentile, a PERCENTILE_ statistic
\* under what follows the prefix
RECURSIVE percentile_measurements(_, _)
percentile_measurements(measurements, d) ==
    IF measurements = <<>> THEN d
    ELSE LET m == Head(measurements)
             next == IF m.statistic = <<"VALUE">>
                     THEN IF m.percentile # NoValue
                          THEN DictSet(d, m.percentile[1], m.value)
                          ELSE d
                     ELSE IF starts_with_percentile(m.statistic)
                          THEN DictSet(d, percentile_of_statistic(m.statistic), m.value)
                          ELSE d
         IN percentile_measurements(Tail(measurements), next)

extract_percentiles(payload) ==
    percentile_measurements(payload.measurements,
                            percentile_keys(payload.percentile_tag, EmptyDict))

\* _seconds_to_ms
seconds_to_ms(value) ==
    IF value = NoValue THEN NoValue ELSE Some(value[1] * 1000)

\* `measurements.get("COUNT")`
count_statistic(payload) ==
    LET counts == SelectSeq(payload.measurements, LAMBDA m : m.statistic = <<"COUNT">>)
    IN IF counts = <<>> THEN NoValue ELSE Some(counts[Len(counts)].value)

\* `x or 0`
or_zero(x) == IF x = NoValue THEN 0 ELSE x[1]

\* `total = (success_count or 0) + (error_count or 0) or count`
outcome_total(success_count, error_count, count) ==
    IF or_zero(success_count) + or_zero(error_count) # 0
    THEN Some(or_zero(success_count) + or_zero(error_count))
    ELSE count

\* `error_rate = (error_count or 0) / total if total else None`, as the
\* fraction it divides
error_rate(success_count, error_count, count) ==
    LET total == outcome_total(success_count, error_count, count)
    IN IF total # NoValue /\ total[1] # 0
       THEN Some([num |-> or_zero(error_count), den |-> total[1]])
       ELSE NoValue

\* the counts an outcome query can return: None (HTTP error, or no numeric
\* COUNT) or the COUNT
OutcomeCounts == {NoValue} \cup {Some(n) : n \in 0..MaxCount}

IdleQuery ==
    [pc |-> "idle", payload |-> [percentile_tag |-> <<>>, measurements |-> <<>>],
     success_count |-> NoValue, error_count |-> NoValue, result |-> [kind |-> "none"]]

\* _query_endpoint_metrics is called: the percentile query is sent
query_endpoint_metrics ==
    /\ query.pc = "idle"
    /\ query' = [query EXCEPT !.pc = "get"]
    /\ UNCHANGED <<env_vars, now, compose_cache, docker, docker_handles, monitor_vars, trace_vars, req, probe, summary, invoked, lifespan, returned>>

\* the percentile query ends: an HTTP error returns None, a response is
\* parsed and the SUCCESS count queried
query_endpoint_metrics_get_done(outcome) ==
    /\ query.pc = "get"
    /\ query' = IF outcome = "http_error"
                THEN [query EXCEPT !.pc = "done", !.result = [kind |-> "None"]]
                ELSE [query EXCEPT !.pc = "success_count"]
    /\ UNCHANGED <<env_vars, now, compose_cache, docker, docker_handles, monitor_vars, trace_vars, req, probe, summary, invoked, lifespan, returned>>

\* _query_outcome_count(..., "SUCCESS") returns: the SERVER_ERROR count is
\* queried
query_success_count_done(n) ==
    /\ query.pc = "success_count"
    /\ query' = [query EXCEPT !.pc = "error_count", !.success_count = n]
    /\ UNCHANGED <<env_vars, now, compose_cache, docker, docker_handles, monitor_vars, trace_vars, req, probe, summary, invoked, lifespan, returned>>

\* the EndpointMetrics built once both counts are known
endpoint_metrics(payload, success_count, error_count) ==
    LET percentile_values == extract_percentiles(payload)
        count == count_statistic(payload)
    IN [kind |-> "EndpointMetrics",
        p50_ms |-> seconds_to_ms(DictGet(percentile_values, <<"0", ".", "5">>)),
        p90_ms |-> seconds_to_ms(DictGet(percentile_values, <<"0", ".", "9">>)),
        p99_ms |-> seconds_to_ms(DictGet(percentile_values, <<"0", ".", "99">>)),
        error_rate |-> error_rate(success_count, error_count, count),
        sample_size |-> count]

\* _query_outcome_count(..., "SERVER_ERROR") returns: the datapoint is built
query_error_count_done(n) ==
    /\ query.pc = "error_count"
    /\ query' = [query EXCEPT !.pc = "done", !.error_count = n,
                              !.result = endpoint_metrics(query.payload,
                                                          query.success_count, n)]
    /\ UNCHANGED <<env_vars, now, compose_cache, docker, docker_handles, monitor_vars, trace_vars, req, probe, summary, invoked, lifespan, returned>>

\* ------------------------------------------------------------------------
\* _summarize_trace: the summary of a Jaeger/Tempo payload.  The payload
\* gives durations and start times in microseconds; a float of
\* milliseconds is counted in thousandths, so float(duration_us) / 1000.0
\* is counted as duration_us.
\* ------------------------------------------------------------------------

\* `processes` of _summarize_trace: proc.get("serviceName") of every entry
\* of trace["processes"], which is None for p0, whose entry carries no
\* serviceName; p4 has no entry
Processes == [pid \in {"p0", "p1", "p2", "p3"} |->
                IF pid = "p0" THEN None
                ELSE IF pid = "p1" THEN "A" ELSE IF pid = "p2" THEN "B" ELSE "C"]

ProcessIds == {"p1", "p2", "p3", "p4"}

\* durations and start times of spans, in microseconds
SpanDurations == {50000, 300000, 500000}

StartTimes == {0, 1500, 2000}

\* the span lists of the payloads followed: spans of every process that
\* start together, and spans of one process that start apart
SpanPayloads ==
    UNION {[1..n -> [processID : ProcessIds, duration : SpanDurations, startTime : {0}]]
           \cup [1..n -> [processID : {"p1"}, duration : SpanDurations, startTime : StartTimes]] :
              n \in 0..MaxSpans}

\* the TraceSpan built from a span of the payload
trace_span(span_payload) ==
    [service |-> IF span_payload.processID \in DOMAIN Processes
                 THEN Processes[span_payload.processID] ELSE "unknown",
     duration_ms |-> span_payload.duration,
     start_time_ms |-> span_payload.startTime \div 1000]

trace_spans(spans) == [i \in 1..Len(spans) |-> trace_span(spans[i])]

\* service_durations after the loop over the spans: a dict, so its items
\* in the order in which the services first appear
RECURSIVE service_durations(_, _)
service_durations(spans, acc) ==
    IF spans = <<>> THEN acc
    ELSE LET span == Head(spans)
             next == IF \E i \in 1..Len(acc) : acc[i].service = span.service
                     THEN [i \in 1..Len(acc) |->
                             IF acc[i].service = span.service
                             THEN [acc[i] EXCEPT !.total = @ + span.duration_ms]
                             ELSE acc[i]]
                     ELSE Append(acc, [service |-> span.service, total |-> span.duration_ms])
         IN service_durations(Tail(spans), next)

\* a sort that puts an item before the items of equal total it follows
insert_by_total_unstable(item, sorted) ==
    LET k == Cardinality({i \in 1..Len(sorted) : sorted[i].total > item.total})
    IN SubSeq(sorted, 1, k) \o <<item>> \o SubSeq(sorted, k + 1, Len(sorted))

\* sorted(..., reverse=True) is stable: an item goes after the items whose
\* total is at least its own
insert_by_total(item, sorted) ==
    LET k == Cardinality({i \in 1..Len(sorted) : sorted[i].total >= item.total})
    IN SubSeq(sorted, 1, k) \o <<item>> \o SubSeq(sorted, k + 1, Len(sorted))

\* sorted(service_durations, key=service_durations.get, reverse=True)
RECURSIVE sorted_by_total(_, _)
sorted_by_total(items, sorted) ==
    IF items = <<>> THEN sorted
    ELSE sorted_by_total(Tail(items), insert_by_total(Head(items), sorted))

\* critical_path_services: the first three of the sorted services
critical_path_services(spans) ==
    LET ranked == sorted_by_total(service_durations(spans, <<>>), <<>>)
        top == SubSeq(ranked, 1, IF Len(ranked) < 3 THEN Len(ranked) ELSE 3)
    IN [i \in 1..Len(top) |-> top[i].service]

\* min(span.start_time_ms for span in spans), in thousandths
RECURSIVE start_min(_)
start_min(spans) ==
    IF Len(spans) = 1 THEN spans[1].start_time_ms * 1000
    ELSE LET rest == start_min(Tail(spans))
         IN IF spans[1].start_time_ms * 1000 < rest
            THEN spans[1].start_time_ms * 1000 ELSE rest

\* max(span.start_time_ms + span.duration_ms for span in spans)
RECURSIVE end_max(_)
end_max(spans) ==
    IF Len(spans) = 1 THEN spans[1].start_time_ms * 1000 + spans[1].duration_ms
    ELSE LET rest == end_max(Tail(spans))
             end == spans[1].start_time_ms * 1000 + spans[1].duration_ms
         IN IF end > rest THEN end ELSE rest

\* an overall duration measured from the first span of the list
overall_duration_from_first(spans) ==
    IF spans # <<>> THEN end_max(spans) - spans[1].start_time_ms * 1000 ELSE 0

\* overall_duration: end_max - start_min, 0.0 without spans
overall_duration(spans) ==
    IF spans # <<>> THEN end_max(spans) - start_min(spans) ELSE 0

IdleSummary == [pc |-> "idle", spans |-> <<>>, result |-> [kind |-> "none"]]

\* _summarize_trace(payload, trace_id)
summarize_trace ==
    /\ summary.pc = "idle"
    /\ LET spans == trace_spans(summary.spans)
       IN summary' = [summary EXCEPT
                        !.pc = "done",
                        !.result = [kind |-> "TraceSummary",
                                    duration_ms |-> overall_duration(spans),
                                    critical_path_services |-> critical_path_services(spans),
                                    spans |-> spans]]
    /\ UNCHANGED <<env_vars, now, compose_cache, docker, docker_handles, monitor_vars, trace_vars, req,
                   probe, query, invoked, lifespan, returned>>

\* ------------------------------------------------------------------------
\* ComposeServiceManager.service_status, one call followed from its argument
\* to its return.  The metadata objects live in `objects`; the argument and
\* the return value are references into it.  `clock` is
\* datetime.now(timezone.utc), 0 when the metadata was constructed.
\* ------------------------------------------------------------------------
IdleCall == [fn |-> "none", pc |-> "idle"]

\* container.status of the containers that containers.list returns without
\* all=True
ContainerStatuses == {"running", "paused", "restarting"}

\* what client.containers.list can return for the service's label
ContainerListings == UNION {[1..n -> ContainerStatuses] : n \in 0..MaxContainers}

\* ServiceMetadata(name=..., status="unknown") as _build_metadata constructs it
NewServiceMetadata(name) == [name |-> name, status |-> "unknown", last_state_change |-> 0]

\* ServiceMetadata.mark_status
mark_status(metadata, status, utcnow) ==
    [metadata EXCEPT !.status = status, !.last_state_change = utcnow]

\* the dict of the for loop: its keys in insertion order, and its values
NoCounts == [keys |-> <<>>, values |-> EmptyDict]

\* status_counts[status] = status_counts.get(status, 0) + 1, per container
RECURSIVE status_counts(_, _)
status_counts(containers, counts) ==
    IF containers = <<>> THEN counts
    ELSE LET status == Head(containers)
             seen == status \in DOMAIN counts.values
             n == IF seen THEN counts.values[status] ELSE 0
         IN status_counts(Tail(containers),
                [keys |-> IF seen THEN counts.keys ELSE Append(counts.keys, status),
                 values |-> DictSet(counts.values, status, n + 1)])

\* max() returning the last of the keys with the largest count
dominant_status_last(counts) ==
    LET i == CHOOSE i \in 1..Len(counts.keys) :
                 /\ \A j \in 1..Len(counts.keys) :
                       counts.values[counts.keys[j]] <= counts.values[counts.keys[i]]
                 /\ \A j \in (i + 1)..Len(counts.keys) :
                       counts.values[counts.keys[j]] < counts.values[counts.keys[i]]
    IN counts.keys[i]

\* max(status_counts, key=status_counts.get): the first key, in iteration
\* order, whose count no other key exceeds
dominant_status(counts) ==
    LET i == CHOOSE i \in 1..Len(counts.keys) :
                 /\ \A j \in 1..Len(counts.keys) :
                       counts.values[counts.keys[j]] <= counts.values[counts.keys[i]]
                 /\ \A j \in 1..(i - 1) :
                       counts.values[counts.keys[j]] < counts.values[counts.keys[i]]
    IN counts.keys[i]

\* the calls followed: one metadata object, and what the engine lists for it
StatusArguments ==
    {[fn |-> "service_status", pc |-> "idle", containers |-> c, clock |-> 0,
      objects |-> <<NewServiceMetadata("web")>>, service |-> 1, returned |-> 0,
      raised |-> None] : c \in ContainerListings}

\* service_status(service) up to its first suspension point: _client()
\* returns the cached handle and the containers are listed in a thread, or
\* a new handle is pinged in a thread, or from_env() raises
service_status ==
    /\ invoked.fn = "service_status"
    /\ invoked.pc = "idle"
    /\ docker' = client_handle
    /\ docker_handles' = client_handles
    /\ \E dt \in {0, 1} :
          invoked' = IF docker # None
                  THEN [invoked EXCEPT !.pc = "listing", !.clock = @ + dt]
                  ELSE IF engine = "misconfigured"
                  THEN [invoked EXCEPT !.pc = "done", !.raised = "DockerUnavailable",
                                    !.clock = @ + dt]
                  ELSE [invoked EXCEPT !.pc = "pinging", !.clock = @ + dt]
    /\ UNCHANGED <<env_vars, now, compose_cache, monitor_vars, trace_vars, req,
                   probe, query, summary, lifespan, returned>>

\* the ping of the new handle ends: a failed ping raises DockerUnavailable
service_status_ping_done ==
    /\ invoked.fn = "service_status"
    /\ invoked.pc = "pinging"
    /\ \E dt \in {0, 1} :
          invoked' = IF engine = "down"
                  THEN [invoked EXCEPT !.pc = "done", !.raised = "DockerUnavailable",
                                    !.clock = @ + dt]
                  ELSE [invoked EXCEPT !.pc = "listing", !.clock = @ + dt]
    /\ UNCHANGED <<env_vars, now, compose_cache, docker, docker_handles, monitor_vars, trace_vars, req,
                   probe, query, summary, lifespan, returned>>

\* containers.list ends: with a docker error that service_status lets
\* through, or with the containers, from which the status is marked on the
\* object passed in and that object returned
service_status_listed(outcome) ==
    /\ invoked.fn = "service_status"
    /\ invoked.pc = "listing"
    /\ IF outcome = "docker_error"
       THEN invoked' = [invoked EXCEPT !.pc = "done", !.raised = "DockerException"]
       ELSE LET status == IF invoked.containers = <<>> THEN "stopped"
                          ELSE dominant_status(status_counts(invoked.containers, NoCounts))
            IN invoked' = [invoked EXCEPT
                          !.pc = "done",
                          !.objects[invoked.service] = mark_status(@, status, invoked.clock),
                          !.returned = invoked.service]
    /\ UNCHANGED <<env_vars, now, compose_cache, docker, docker_handles, monitor_vars, trace_vars, req,
                   probe, query, summary, lifespan, returned>>

\* ------------------------------------------------------------------------
\* ComposeServiceManager.dependency_graph, one call followed from the
\* depends_on payloads of the Compose file to the graph returned
\* ------------------------------------------------------------------------

\* the service names in the order of Python's string comparison
SortedNames == <<"api", "db", "web">>

\* the position of a name in that order
NameRank(name) == CHOOSE i \in 1..Len(SortedNames) : SortedNames[i] = name

\* sequences of at most MaxDepends names of the other services (Compose
\* resolves no file in which a service depends on itself)
NameLists(service) ==
    UNION {[1..len -> ServiceNames \ {service}] : len \in 0..MaxDepends}

\* payload.get("depends_on", {}) of a service: the short form (a list), the
\* long form (a mapping keyed by service, given by its keys in order, each
\* key once), or something else
DependsOnPayloads(service) ==
    {[kind |-> "list", names |-> n] : n \in NameLists(service)}
    \cup {[kind |-> "dict", names |-> n] :
             n \in {q \in NameLists(service) : \A i, j \in 1..Len(q) : q[i] = q[j] => i = j}}
    \cup {[kind |-> "str", names |-> <<"db">>]}

\* _coerce_depends_on: the keys of a dict, the members of a list, tuple or
\* set, nothing for anything else
coerce_depends_on(raw) ==
    IF raw.kind = "dict" THEN raw.names
    ELSE IF raw.kind = "list" THEN raw.names
    ELSE <<>>

\* sorted(): insertion of a name behind the names that do not rank after it
RECURSIVE insert_name(_, _)
insert_name(sorted, name) ==
    IF sorted = <<>> THEN <<name>>
    ELSE IF NameRank(name) < NameRank(Head(sorted)) THEN <<name>> \o sorted
    ELSE <<Head(sorted)>> \o insert_name(Tail(sorted), name)

RECURSIVE sorted_names(_)
sorted_names(names) ==
    IF names = <<>> THEN <<>>
    ELSE insert_name(sorted_names(SubSeq(names, 1, Len(names) - 1)), names[Len(names)])

\* sorted(targets) of a set
RECURSIVE sorted_targets(_)
sorted_targets(targets) ==
    IF targets = {} THEN <<>>
    ELSE LET first == CHOOSE t \in targets : \A u \in targets : NameRank(t) <= NameRank(u)
         IN <<first>> \o sorted_targets(targets \ {first})

\* _build_metadata: depends_on = tuple(sorted(_coerce_depends_on(...)))
metadata_depends_on(raw) == sorted_names(coerce_depends_on(raw))

\* the metadata discovery builds from a config and its depends_on payloads
graph_services(config, payloads) ==
    [i \in 1..Len(config) |->
        [name |-> config[i], status |-> "unknown",
         depends_on |-> metadata_depends_on(payloads[config[i]])]]

\* edges.append({"from": service.name, "to": dependency}), per service and
\* dependency
RECURSIVE graph_edges(_)
graph_edges(services) ==
    IF services = <<>> THEN <<>>
    ELSE LET service == Head(services)
         IN [j \in 1..Len(service.depends_on) |->
                [from |-> service.name, to |-> service.depends_on[j]]]
            \o graph_edges(Tail(services))

\* the reverse mapping keyed by the dependent
RECURSIVE reverse_by_dependent(_, _)
reverse_by_dependent(edges, reverse) ==
    IF edges = <<>> THEN reverse
    ELSE LET e == Head(edges)
             targets == IF e.from \in DOMAIN reverse THEN reverse[e.from] ELSE {}
         IN reverse_by_dependent(Tail(edges), DictSet(reverse, e.from, targets \cup {e.to}))

\* reverse.setdefault(dependency, set()).add(service.name), per edge
RECURSIVE reverse_adjacency(_, _)
reverse_adjacency(edges, reverse) ==
    IF edges = <<>> THEN reverse
    ELSE LET e == Head(edges)
             targets == IF e.to \in DOMAIN reverse THEN reverse[e.to] ELSE {}
         IN reverse_adjacency(Tail(edges), DictSet(reverse, e.to, targets \cup {e.from}))

\* the dict dependency_graph returns
graph_of(services) ==
    LET edges == graph_edges(services)
        reverse == reverse_adjacency(edges, EmptyDict)
    IN [kind |-> "graph",
        nodes |-> [i \in 1..Len(services) |->
                      [name |-> services[i].name, depends_on |-> services[i].depends_on,
                       status |-> services[i].status]],
        edges |-> edges,
        reverse |-> [name \in DOMAIN reverse |-> sorted_targets(reverse[name])]]

GraphArguments ==
    {[fn |-> "dependency_graph", pc |-> "idle",
      payloads |-> [api |-> a, db |-> d, web |-> w],
      result |-> [kind |-> "none"], raised |-> None] :
        a \in DependsOnPayloads("api"), d \in DependsOnPayloads("db"),
        w \in DependsOnPayloads("web")}

\* dependency_graph up to its first suspension point: discovery raises,
\* answers from the cache, or spawns `docker compose config`
dependency_graph ==
    /\ invoked.fn = "dependency_graph"
    /\ invoked.pc = "idle"
    /\ LET d == discovered_services
       IN invoked' =
            IF d = "miss" THEN [invoked EXCEPT !.pc = "resolving"]
            ELSE IF d = "hit"
            THEN [invoked EXCEPT
                    !.pc = "done",
                    !.result = graph_of(graph_services(cached_config, invoked.payloads))]
            ELSE [invoked EXCEPT !.pc = "done", !.raised = d]
    /\ UNCHANGED <<env_vars, now, compose_cache, docker, docker_handles, monitor_vars, trace_vars, req,
                   probe, query, summary, lifespan, returned>>

\* the `docker compose config` subprocess of the call exits
dependency_graph_config_exit(outcome) ==
    /\ invoked.fn = "dependency_graph"
    /\ invoked.pc = "resolving"
    /\ compose_cache' = load_compose_config_cache(outcome)
    /\ LET result == load_compose_config_result(outcome)
       IN invoked' =
            IF result = "services"
            THEN [invoked EXCEPT
                    !.pc = "done",
                    !.result = graph_of(graph_services(compose_file, invoked.payloads))]
            ELSE [invoked EXCEPT !.pc = "done", !.raised = result]
    /\ UNCHANGED <<env_vars, now, docker, docker_handles, monitor_vars, trace_vars, req,
                   probe, query, summary, lifespan, returned>>

\* ------------------------------------------------------------------------
\* lifespan_dependencies: startup, and the `finally` that runs at shutdown
\* ------------------------------------------------------------------------

\* released is set once both aclose() calls have returned, raised is the
\* exception with which the context manager's exit ended
IdleLifespan == [pc |-> "constructed", released |-> FALSE, raised |-> None]

\* the exception the coroutine of a crashed loop task ended with
crash_exception(t) == "KeyError"

\* `await health_monitor.start()` and `await telemetry.start()`, then the
\* yield: neither start() suspends, and each creates its loop task
lifespan_enter ==
    /\ lifespan.pc = "constructed"
    /\ \A m \in Monitors : start_spawns(m)
    /\ loops' = [t \in TaskIds |->
                    [IdleLoop EXCEPT !.mon = IF t = 1 THEN "health" ELSE "telemetry",
                                     !.pc = "created"]]
    /\ task_ref' = [m \in Monitors |-> IF m = "health" THEN 1 ELSE 2]
    /\ starts' = [m \in Monitors |-> starts[m] + 1]
    /\ lifespan' = [lifespan EXCEPT !.pc = "serving"]
    /\ UNCHANGED <<env_vars, probe, query, summary, invoked, returned, now, compose_cache, docker, docker_handles,
                   store, sweeps, stop_called, stoppers, trace_vars, req>>

\* stop() of a monitor called from the finally block, up to `await
\* self._task`: where the block is afterwards.  The task of a crashed loop
\* is done, awaiting it raises its exception out of stop() and out of the
\* finally block; a running task is cancelled and awaited
lifespan_stop(m) ==
    IF task_ref[m] # 0 /\ loops[task_ref[m]].pc = "crashed"
    THEN [lifespan EXCEPT !.pc = "raised", !.raised = crash_exception(task_ref[m])]
    ELSE [lifespan EXCEPT !.pc = IF m = "health" THEN "stopping_health"
                                 ELSE "stopping_telemetry"]

\* the server shuts down: the finally block begins with
\* `await health_monitor.stop()`
lifespan_exit ==
    /\ lifespan.pc = "serving"
    /\ \A r \in Requests : req[r].pc = "idle"
    /\ stop_called' = [stop_called EXCEPT !["health"] = TRUE]
    /\ loops' = cancel(task_ref["health"])
    /\ lifespan' = lifespan_stop("health")
    /\ UNCHANGED <<env_vars, probe, query, summary, invoked, returned, now, compose_cache, docker, docker_handles,
                   task_ref, store, sweeps, starts, stoppers, trace_vars, req>>

\* health_monitor.stop() resumes from its await and returns;
\* `await telemetry.stop()` is called
lifespan_health_stopped ==
    /\ lifespan.pc = "stopping_health"
    /\ loops[task_ref["health"]].pc = "cancelled"
    /\ task_ref' = [task_ref EXCEPT !["health"] = 0]
    /\ stop_called' = [stop_called EXCEPT !["telemetry"] = TRUE]
    /\ loops' = cancel(task_ref["telemetry"])
    /\ lifespan' = lifespan_stop("telemetry")
    /\ UNCHANGED <<env_vars, probe, query, summary, invoked, returned, now, compose_cache, docker, docker_handles,
                   store, sweeps, starts, stoppers, trace_vars, req>>

\* telemetry.stop() resumes from its await and returns; then
\* compose_manager.aclose() and traces.aclose() close the handles there are
lifespan_telemetry_stopped ==
    /\ lifespan.pc = "stopping_telemetry"
    /\ loops[task_ref["telemetry"]].pc = "cancelled"
    /\ task_ref' = [task_ref EXCEPT !["telemetry"] = 0]
    /\ docker' = None
    /\ UNCHANGED docker_handles
    /\ trace_client' = None
    /\ lifespan' = [lifespan EXCEPT !.pc = "closed", !.released = TRUE]
    /\ UNCHANGED <<env_vars, probe, query, summary, invoked, returned, now, compose_cache, loops,
                   store, sweeps, starts, stop_called, stoppers, http_requests, req>>

\* ------------------------------------------------------------------------
\* Readers of latest().  What a reader holds is a reference: `dict` tells
\* whether it is a dict of its own or the monitor's cache, `lists` whether
\* the lists in it are its own or the cache's, `entries` what a dict of its
\* own holds, `taken` what the cache held when latest() was called, `flip`
\* a bit every call of latest() inverts.
\* ------------------------------------------------------------------------
NoMap ==
    [kind |-> "none", dict |-> "none", lists |-> "none",
     entries |-> [s \in ServiceNames |-> [sweep |-> 0, value |-> "absent"]],
     taken |-> [s \in ServiceNames |-> [sweep |-> 0, value |-> "absent"]], flip |-> 0]

\* latest() handing out the cache
latest_returns_cache(m) == "cache"

\* HealthMonitor.latest: dict(self._snapshots); TelemetryAggregator.latest:
\* a dict comprehension.  Both build a new dict
latest_returns(m) == "copy"

\* the values of the returned dict: the cache's HealthSnapshot objects, and
\* list(metrics), a new list, for every list of the telemetry cache
latest_values(m) == IF m = "telemetry" THEN "copy" ELSE "cache"

\* the entries a reader sees through the dict it holds
View(m) == IF returned[m].dict = "cache" THEN store[m] ELSE returned[m].entries

\* what a reader puts into a dict, and a list a reader has appended to
ReaderEntry == [sweep |-> 0, value |-> "reader"]

Appended(entry) == [entry EXCEPT !.value = "metrics, reader"]

\* a reader calls latest(): a plain method, it runs to its return whatever
\* the loop is doing
reader_latest(m) ==
    /\ returned' = [returned EXCEPT ![m] =
            [kind |-> "map", dict |-> latest_returns(m), lists |-> latest_values(m),
             entries |-> store[m], taken |-> store[m], flip |-> 1 - returned[m].flip]]
    /\ UNCHANGED <<env_vars, probe, query, summary, invoked, lifespan, now, compose_cache,
                   docker, docker_handles, monitor_vars, trace_vars, req>>

\* a reader assigns to a key of the dict it holds (adding or replacing an
\* entry) or deletes one
reader_assigns(m, s, entry) ==
    /\ returned[m].kind = "map"
    /\ View(m)[s] # entry
    /\ IF returned[m].dict = "cache"
       THEN /\ store' = [store EXCEPT ![m][s] = entry]
            /\ UNCHANGED returned
       ELSE /\ returned' = [returned EXCEPT ![m].entries[s] = entry]
            /\ UNCHANGED store
    /\ UNCHANGED <<env_vars, probe, query, summary, invoked, lifespan, now, compose_cache,
                   docker, docker_handles, task_ref, loops, sweeps, starts, stop_called,
                   stoppers, trace_vars, req>>

\* a reader appends to a metrics list of the dict it holds: the list
\* changes for everyone who holds it
reader_appends(m, s) ==
    /\ returned[m].kind = "map"
    /\ m = "telemetry"
    /\ View(m)[s].value = "metrics"
    /\ LET shared == returned[m].lists = "cache" /\ store[m][s] = View(m)[s]
       IN /\ returned' = IF returned[m].dict = "cache" THEN returned
                         ELSE [returned EXCEPT ![m].entries[s] = Appended(@)]
          /\ store' = IF returned[m].dict = "cache" \/ shared
                      THEN [store EXCEPT ![m][s] = Appended(@)]
                      ELSE store
    /\ UNCHANGED <<env_vars, probe, query, summary, invoked, lifespan, now, compose_cache,
                   docker, docker_handles, task_ref, loops, sweeps, starts, stop_called,
                   stoppers, trace_vars, req>>

\* ------------------------------------------------------------------------
\* _parse_ports, one call.  A string is the sequence of its tokens ("8080:80"
\* is <<"8080", ":", "80">>); a JSON scalar is a record of its type and value.
\* ------------------------------------------------------------------------

\* the tokens that are decimal numbers, and what int() makes of them
NumberTokens == ("8080" :> 8080) @@ ("80" :> 80) @@ ("9000" :> 9000)

JsonNone == [type |-> "none", n |-> 0, s |-> <<>>]

JsonInt(n) == [type |-> "int", n |-> n, s |-> <<>>]

JsonStr(s) == [type |-> "str", n |-> 0, s |-> s]

\* an entry of `ports`: a string, a mapping, or a bare number
PortString(text) ==
    [kind |-> "str", text |-> text, published |-> JsonNone, host |-> JsonNone,
     target |-> JsonNone, container |-> JsonNone]

PortMapping(published, host, target, container) ==
    [kind |-> "dict", text |-> <<>>, published |-> published, host |-> host,
     target |-> target, container |-> container]

PortNumber(n) ==
    [kind |-> "int", text |-> <<>>, published |-> JsonInt(n), host |-> JsonNone,
     target |-> JsonNone, container |-> JsonNone]

\* int(value) of a string: the number of a lone number token; anything else
\* (the empty string, "80/tcp", "8080-8081") is a ValueError
int_of_text(text) ==
    IF Len(text) = 1 /\ text[1] \in DOMAIN NumberTokens
    THEN Some(NumberTokens[text[1]])
    ELSE NoValue

\* _safe_int: None for None and for what int() rejects
safe_int(value) ==
    IF value.type = "none" THEN NoValue
    ELSE IF value.type = "int" THEN Some(value.n)
    ELSE int_of_text(value.s)

\* the truth value of a JSON scalar, and `a or b`
truthy(value) ==
    \/ value.type = "int" /\ value.n # 0
    \/ value.type = "str" /\ value.s # <<>>

either(a, b) == IF truthy(a) THEN a ELSE b

\* entry.split(":")
RECURSIVE split_colon(_)
split_colon(text) ==
    IF \E i \in 1..Len(text) : text[i] = ":"
    THEN LET i == CHOOSE k \in 1..Len(text) :
                     text[k] = ":" /\ \A j \in 1..(k - 1) : text[j] # ":"
         IN <<SubSeq(text, 1, i - 1)>> \o split_colon(SubSeq(text, i + 1, Len(text)))
    ELSE <<text>>

\* the short syntax read with host and container exchanged
short_syntax_swapped(parts) ==
    IF Len(parts) = 1
    THEN [host_port |-> int_of_text(parts[1]), container_port |-> NoValue]
    ELSE [host_port |-> int_of_text(parts[Len(parts)]),
          container_port |-> int_of_text(parts[Len(parts) - 1])]

\* the short syntax: one part is the container port, of more parts the
\* last is the container port and the one before it the host port
short_syntax(parts) ==
    IF Len(parts) = 1
    THEN [host_port |-> NoValue, container_port |-> int_of_text(parts[1])]
    ELSE [host_port |-> int_of_text(parts[Len(parts) - 1]),
          container_port |-> int_of_text(parts[Len(parts)])]

\* host_port and container_port of one entry of the for loop
entry_ports(entry) ==
    IF entry.kind = "str" THEN short_syntax(split_colon(entry.text))
    ELSE IF entry.kind = "dict"
    THEN [host_port |-> safe_int(either(entry.published, entry.host)),
          container_port |-> safe_int(either(entry.target, entry.container))]
    ELSE [host_port |-> NoValue, container_port |-> NoValue]

\* the for loop of _parse_ports over the entries from position i
RECURSIVE parse_ports_from(_, _, _, _)
parse_ports_from(entries, i, published, container_ports) ==
    IF i > Len(entries)
    THEN [published |-> published, container_ports |-> container_ports]
    ELSE LET ports == entry_ports(entries[i])
         IN IF ports.container_port = NoValue
            THEN parse_ports_from(entries, i + 1, published, container_ports)
            ELSE parse_ports_from(entries, i + 1,
                    IF ports.host_port # NoValue
                    THEN DictSet(published, ports.host_port[1], ports.container_port[1])
                    ELSE published,
                    Append(container_ports, ports.container_port[1]))

parse_ports(entries) == parse_ports_from(entries, 1, EmptyDict, <<>>)

\* entries a Compose file can give, each with the host port and the
\* container port Compose reads from it (none where the entry names none
\* that is a number)
PortEntries ==
    {[entry |-> PortString(<<"8080">>), host |-> NoValue, target |-> Some(8080)],
     [entry |-> PortString(<<"8080", ":", "80">>), host |-> Some(8080), target |-> Some(80)],
     [entry |-> PortString(<<"127.0.0.1", ":", "9000", ":", "80">>),
      host |-> Some(9000), target |-> Some(80)],
     [entry |-> PortString(<<"9000", ":">>), host |-> Some(9000), target |-> NoValue],
     [entry |-> PortString(<<"http">>), host |-> NoValue, target |-> NoValue],
     [entry |-> PortString(<<"8080", ":", "80", "/tcp">>),
      host |-> Some(8080), target |-> NoValue],
     [entry |-> PortMapping(JsonInt(8080), JsonNone, JsonInt(80), JsonNone),
      host |-> Some(8080), target |-> Some(80)],
     [entry |-> PortMapping(JsonStr(<<"9000">>), JsonNone, JsonInt(8080), JsonNone),
      host |-> Some(9000), target |-> Some(8080)],
     [entry |-> PortMapping(JsonNone, JsonNone, JsonInt(9000), JsonNone),
      host |-> NoValue, target |-> Some(9000)],
     [entry |-> PortMapping(JsonInt(8080), JsonNone, JsonNone, JsonNone),
      host |-> Some(8080), target |-> NoValue],
     [entry |-> PortMapping(JsonNone, JsonInt(9000), JsonNone, JsonInt(80)),
      host |-> Some(9000), target |-> Some(80)],
     [entry |-> PortNumber(8080), host |-> NoValue, target |-> NoValue]}

PortArguments ==
    {[fn |-> "parse_ports", pc |-> "idle", entries |-> e,
      result |-> [published |-> EmptyDict, container_ports |-> <<>>]] :
        e \in UNION {[1..n -> PortEntries] : n \in 0..MaxPorts}}

\* _parse_ports(payload.get("ports", []))
parse_ports_call ==
    /\ invoked.fn = "parse_ports"
    /\ invoked.pc = "idle"
    /\ invoked' = [invoked EXCEPT
                     !.pc = "done",
                     !.result = parse_ports([i \in 1..Len(invoked.entries) |->
                                               invoked.entries[i].entry])]
    /\ UNCHANGED <<env_vars, now, compose_cache, docker, docker_handles, monitor_vars,
                   trace_vars, req, probe, query, summary, lifespan, returned>>

\* ------------------------------------------------------------------------
\* _build_metadata: the URL lists derived from a service's payload, one
\* call.  A URL is the sequence of its tokens ("http://web:8080/docs" is
\* <<"http://", "web", ":", "8080", "/", "docs">>).
\* ------------------------------------------------------------------------
DEFAULT_INTERNAL_PORT == 8080

\* "/actuator/health"
DEFAULT_HEALTH_PATH == <<"/", "actuator/health">>

\* "actuator/metrics/http.server.requests"
MetricsPath == <<"actuator/metrics/http.server.requests">>

\* f"{port}": the decimal text of a port
port_text(port) == CHOOSE token \in DOMAIN NumberTokens : NumberTokens[token] = port

\* sorted(published_ports): the host ports in ascending order
RECURSIVE sorted_ports(_)
sorted_ports(ports) ==
    IF ports = {} THEN <<>>
    ELSE LET least == CHOOSE p \in ports : \A q \in ports : p <= q
         IN <<least>> \o sorted_ports(ports \ {least})

\* the internal port taken from the declared container ports before x-dev
preferred_container_port_declared(container_ports, x_dev) ==
    IF container_ports # <<>> THEN container_ports[1]
    ELSE IF safe_int(x_dev.port) # NoValue THEN safe_int(x_dev.port)[1]
    ELSE DEFAULT_INTERNAL_PORT

\* _derive_base_urls: x-dev's port, else the first container port, else
\* the default
preferred_container_port(container_ports, x_dev) ==
    IF safe_int(x_dev.port) # NoValue THEN safe_int(x_dev.port)[1]
    ELSE IF container_ports # <<>> THEN container_ports[1]
    ELSE DEFAULT_INTERNAL_PORT

\* a list returned as it was built
not_deduped(urls) == urls

\* the `seen` loop of _derive_base_urls: every URL where it first occurs
deduped(urls) ==
    SelectSeq([i \in 1..Len(urls) |->
                  IF \E j \in 1..(i - 1) : urls[j] = urls[i] THEN <<>> ELSE urls[i]],
              LAMBDA url : url # <<>>)

\* tuple(dict.fromkeys(urls)): every URL where it first occurs
from_keys(urls) ==
    SelectSeq([i \in 1..Len(urls) |->
                  IF \E j \in 1..(i - 1) : urls[j] = urls[i] THEN <<>> ELSE urls[i]],
              LAMBDA url : url # <<>>)

\* _derive_base_urls, the list before the `seen` loop
base_urls_built(service_name, published_ports, container_ports, x_dev) ==
    LET host_ports == sorted_ports(DOMAIN published_ports)
    IN [i \in 1..Len(host_ports) |->
           <<"http://", "localhost", ":", port_text(host_ports[i])>>]
       \o << <<"http://", service_name, ":",
               port_text(preferred_container_port(container_ports, x_dev))>> >>

\* _derive_base_urls
derive_base_urls(service_name, published_ports, container_ports, x_dev) ==
    deduped(base_urls_built(service_name, published_ports, container_ports, x_dev))

\* path.lstrip("/")
RECURSIVE lstrip_slash(_)
lstrip_slash(path) ==
    IF path # <<>> /\ Head(path) = "/" THEN lstrip_slash(Tail(path)) ELSE path

\* urljoin(base + "/", path): a path with a scheme replaces the base, any
\* other is put behind the base's slash
urljoin(base, path) ==
    IF path # <<>> /\ Head(path) = "http://" THEN path
    ELSE base \o <<"/">> \o path

\* str(x_dev.get("health") or _DEFAULT_HEALTH_PATH)
health_path(x_dev) == IF truthy(x_dev.health) THEN x_dev.health.s ELSE DEFAULT_HEALTH_PATH

\* _safe_int(x_dev.get("port")) or (container_ports[0] if container_ports
\* else _DEFAULT_INTERNAL_PORT)
fallback_port(container_ports, x_dev) ==
    IF safe_int(x_dev.port) # NoValue /\ safe_int(x_dev.port)[1] # 0
    THEN safe_int(x_dev.port)[1]
    ELSE IF container_ports # <<>> THEN container_ports[1]
    ELSE DEFAULT_INTERNAL_PORT

\* _derive_health_urls, the list before dict.fromkeys
health_urls_built(base_urls, service_name, container_ports, x_dev) ==
    LET path == health_path(x_dev)
        urls == [i \in 1..Len(base_urls) |-> urljoin(base_urls[i], lstrip_slash(path))]
    IN IF base_urls = <<>>
       THEN Append(urls, <<"http://", service_name, ":",
                           port_text(fallback_port(container_ports, x_dev))>> \o path)
       ELSE urls

\* _derive_health_urls
derive_health_urls(base_urls, service_name, container_ports, x_dev) ==
    from_keys(health_urls_built(base_urls, service_name, container_ports, x_dev))

\* _derive_docs_urls, the list before dict.fromkeys
docs_urls_built(base_urls, x_dev) ==
    [i \in 1..Len(base_urls) |-> urljoin(base_urls[i], lstrip_slash(x_dev.docs.s))]

\* _derive_docs_urls
derive_docs_urls(base_urls, x_dev) ==
    IF ~truthy(x_dev.docs) THEN <<>> ELSE from_keys(docs_urls_built(base_urls, x_dev))

\* _derive_metrics_urls, the list before dict.fromkeys
metrics_urls_built(base_urls) ==
    [i \in 1..Len(base_urls) |-> urljoin(base_urls[i], MetricsPath)]

\* _derive_metrics_urls
derive_metrics_urls(base_urls, service_name, container_ports, x_dev) ==
    IF metrics_urls_built(base_urls) # <<>> THEN from_keys(metrics_urls_built(base_urls))
    ELSE << <<"http://", service_name, ":",
              port_text(fallback_port(container_ports, x_dev)), "/">> \o MetricsPath >>

\* the `x-dev` mappings of a payload: a port override (none, a number, a
\* text that is no number), a health path and a docs path (none, a path
\* under the service, a URL of another host)
XDevPayloads ==
    {[port |-> p, health |-> h, docs |-> d] :
        p \in {JsonNone, JsonInt(9000), JsonStr(<<"auto">>)},
        h \in {JsonNone, JsonStr(<<"/", "healthz">>),
               JsonStr(<<"http://", "status", "/", "health">>)},
        d \in {JsonNone, JsonStr(<<"/", "docs">>),
               JsonStr(<<"http://", "wiki", "/", "api">>)}}

\* the payloads followed: a service called `web`, or one called
\* `localhost`, with up to MaxPorts entries that have a container port
MetadataArguments ==
    {[fn |-> "build_metadata", pc |-> "idle", service_name |-> name, entries |-> e,
      x_dev |-> x,
      result |-> [ports |-> EmptyDict, container_ports |-> <<>>, base_urls |-> <<>>,
                  health_urls |-> <<>>, docs_urls |-> <<>>, metrics_urls |-> <<>>]] :
        name \in {"web", "localhost"},
        e \in UNION {[1..n -> {pe \in PortEntries : pe.target # NoValue}] :
                        n \in 0..MaxPorts},
        x \in XDevPayloads}

\* _build_metadata(service_name, payload, project_name)
build_metadata ==
    /\ invoked.fn = "build_metadata"
    /\ invoked.pc = "idle"
    /\ LET parsed == parse_ports([i \in 1..Len(invoked.entries) |-> invoked.entries[i].entry])
           base_urls == derive_base_urls(invoked.service_name, parsed.published,
                                         parsed.container_ports, invoked.x_dev)
       IN invoked' = [invoked EXCEPT
            !.pc = "done",
            !.result =
               [ports |-> parsed.published,
                container_ports |-> parsed.container_ports,
                base_urls |-> base_urls,
                health_urls |-> derive_health_urls(base_urls, invoked.service_name,
                                                   parsed.container_ports, invoked.x_dev),
                docs_urls |-> derive_docs_urls(base_urls, invoked.x_dev),
                metrics_urls |-> derive_metrics_urls(base_urls, invoked.service_name,
                                                     parsed.container_ports, invoked.x_dev)]]
    /\ UNCHANGED <<env_vars, now, compose_cache, docker, docker_handles, monitor_vars,
                   trace_vars, req, probe, query, summary, lifespan, returned>>

\* ------------------------------------------------------------------------
\* The API layer: the routes of api/services.py and api/topology.py over
\* the facade, one request after the other
\* ------------------------------------------------------------------------
NoException == [kind |-> "none", code |-> None, message |-> None]

\* DiagnosticError.message of each code the facade constructs
diagnostic_message(code) ==
    IF code = "ComposeBinaryMissing" THEN "Compose binary not found."
    ELSE IF code = "ComposeDiscoveryRootsMissing" THEN "No discovery roots configured."
    ELSE IF code = "ComposeConfigFailed" THEN "Compose failed to resolve."
    ELSE IF code = "DockerUnavailable" THEN "Failed to connect to the Docker Engine."
    ELSE "Compose command failed."

\* DiagnosticError(code, message)
DiagnosticError(code) ==
    [kind |-> "DiagnosticError", code |-> code, message |-> diagnostic_message(code)]

\* an exception that is no DiagnosticError
OtherException(kind) == [kind |-> kind, code |-> None, message |-> None]

NoReply == [status |-> 0, body |-> EmptyDict]

\* a route that returned: the status of its decorator and its JSON body
json_response(status, key, value) == [status |-> status, body |-> DictSet(EmptyDict, key, value)]

\* raise HTTPException(status_code=502, detail=diagnostic.message)
http_exception(diagnostic) ==
    [status |-> 502, body |-> DictSet(EmptyDict, "detail", diagnostic.message)]

\* an exception no route catches: the server answers 500 with a fixed text
\* and goes on serving
server_error == [status |-> 500, body |-> DictSet(EmptyDict, "text", "Internal Server Error")]

ApiArguments ==
    {[fn |-> "api", pc |-> "idle", route |-> "none", served |-> 0,
      raised |-> NoException, response |-> NoReply]}

\* the status text each lifecycle route returns
LifecycleRoutes ==
    [start_services |-> "starting", stop_services |-> "stopping",
     restart_services |-> "restarting"]

\* the request is answered
api_answered(exception, response) ==
    [invoked EXCEPT !.pc = "done", !.served = @ + 1, !.raised = exception,
                    !.response = response]

\* _run_compose_command up to its subprocess: the diagnostic it raises, or
\* "spawned"
run_compose_command ==
    IF ~binary_on_path THEN "ComposeBinaryMissing"
    ELSE IF discovery_roots = <<>> THEN "ComposeDiscoveryRootsMissing"
    ELSE "spawned"

\* POST /api/services/actions/start, /stop and /restart: start_services,
\* stop_services and restart_services up to the subprocess of the facade
start_services(route) ==
    /\ invoked.fn = "api"
    /\ invoked.pc \in {"idle", "done"}
    /\ invoked.served < MaxRequests
    /\ LET called == [invoked EXCEPT !.route = route, !.raised = NoException,
                                     !.response = NoReply]
       IN invoked' =
            IF run_compose_command = "spawned" THEN [called EXCEPT !.pc = "running"]
            ELSE [called EXCEPT
                    !.pc = "done", !.served = @ + 1,
                    !.raised = DiagnosticError(run_compose_command),
                    !.response = http_exception(DiagnosticError(run_compose_command))]
    /\ UNCHANGED <<env_vars, now, compose_cache, docker, docker_handles, monitor_vars,
                   trace_vars, req, probe, query, summary, lifespan, returned>>

\* the compose subprocess of a lifecycle route exits: on a non-zero status
\* logger.error(..., extra={"args": ...}) raises KeyError before the
\* DiagnosticError is constructed
compose_command_exit(returncode) ==
    /\ invoked.fn = "api"
    /\ invoked.pc = "running"
    /\ invoked' =
         IF returncode = 0
         THEN api_answered(NoException,
                           json_response(202, "status", LifecycleRoutes[invoked.route]))
         ELSE api_answered(OtherException("KeyError"), server_error)
    /\ UNCHANGED <<env_vars, now, compose_cache, docker, docker_handles, monitor_vars,
                   trace_vars, req, probe, query, summary, lifespan, returned>>

\* the routes that begin with discovery: GET /api/deps, GET /api/urls and
\* GET /api/services
DiscoveryRoutes == {"dependency_graph", "url_index", "list_services"}

\* a route whose discovery returned: dependency_graph and url_index answer,
\* list_services goes on to service_status
discovered(called) ==
    IF called.route = "list_services" THEN [called EXCEPT !.pc = "enriching"]
    ELSE [called EXCEPT !.pc = "done", !.served = @ + 1,
                        !.response = json_response(200, "services", called.route)]

\* dependency_graph, url_index and list_services: the call of the facade
\* up to the subprocess of discovery
discovery_route(route) ==
    /\ invoked.fn = "api"
    /\ invoked.pc \in {"idle", "done"}
    /\ invoked.served < MaxRequests
    /\ LET d == discovered_services
           called == [invoked EXCEPT !.route = route, !.raised = NoException,
                                     !.response = NoReply]
       IN invoked' =
            IF d = "miss" THEN [called EXCEPT !.pc = "resolving"]
            ELSE IF d = "hit" THEN discovered(called)
            ELSE [called EXCEPT !.pc = "done", !.served = @ + 1,
                                !.raised = DiagnosticError(d), !.response = server_error]
    /\ UNCHANGED <<env_vars, now, compose_cache, docker, docker_handles, monitor_vars,
                   trace_vars, req, probe, query, summary, lifespan, returned>>

\* the `docker compose config` subprocess of such a route exits
discovery_route_config_exit(outcome) ==
    /\ invoked.fn = "api"
    /\ invoked.pc = "resolving"
    /\ compose_cache' = load_compose_config_cache(outcome)
    /\ LET result == load_compose_config_result(outcome)
       IN invoked' =
            IF result = "services" THEN discovered(invoked)
            ELSE IF result = "ComposeConfigFailed"
            THEN api_answered(DiagnosticError(result), server_error)
            ELSE api_answered(OtherException(result), server_error)
    /\ UNCHANGED <<env_vars, now, docker, docker_handles, monitor_vars, trace_vars, req,
                   probe, query, summary, lifespan, returned>>

\* list_services: `[await manager.service_status(service) for service in
\* services]`.  _client() raises DockerUnavailable when from_env() or the
\* ping fails; a handle cached by an earlier call is not pinged, and
\* containers.list then raises the client's own exception
list_services_enriched ==
    /\ invoked.fn = "api"
    /\ invoked.pc = "enriching"
    /\ docker' = client_handle
    /\ docker_handles' = client_handles
    /\ invoked' =
         IF engine = "up"
         THEN api_answered(NoException, json_response(200, "services", "list_services"))
         ELSE IF docker = None
         THEN api_answered(DiagnosticError("DockerUnavailable"), server_error)
         ELSE api_answered(OtherException("DockerException"), server_error)
    /\ UNCHANGED <<env_vars, now, compose_cache, monitor_vars, trace_vars, req,
                   probe, query, summary, lifespan, returned>>

\* ------------------------------------------------------------------------
\* One telemetry sweep followed down to its queries: _fetch_metrics and
\* _extract_endpoint_metrics of every service, then the publication.  A URI
\* is the sequence of its path segments ("/actuator/health" is
\* <<"/actuator", "/health">>).
\* ------------------------------------------------------------------------
MAX_ENDPOINTS == 12

ItemNames == <<"1", "2", "3", "4", "5", "6", "7", "8", "9", "10", "11", "12">>

\* the metrics payloads followed: `availableTags` with both dimensions and
\* an Actuator URI among the others, with thirteen URIs of which the first
\* is UNKNOWN, with only excluded URIs, without the `uri` tag, without the
\* `method` tag
TagPayloads ==
    {[tags |-> {"uri", "method"},
      uri |-> << <<"/orders">>, <<"/actuator", "/health">>, <<"/users">> >>,
      method |-> <<"GET", "POST">>],
     [tags |-> {"uri", "method"},
      uri |-> << <<"UNKNOWN">> >> \o [i \in 1..12 |-> <<"/item", ItemNames[i]>>],
      method |-> <<"GET">>],
     [tags |-> {"uri", "method"},
      uri |-> << <<"root">>, <<"/*">>, <<"/actuator">> >>,
      method |-> <<"GET">>],
     [tags |-> {"method"}, uri |-> <<>>, method |-> <<"GET">>],
     [tags |-> {"uri"}, uri |-> << <<"/orders">> >>, method |-> <<>>]}

\* how the queries of one (uri, method) can end: all answered, the
\* percentile query with an HTTP error or with a 2xx body response.json()
\* rejects, an outcome-count query likewise
QueryOutcomes ==
    {"ok", "percentile_http_error", "percentile_garbled", "count_http_error",
     "count_garbled"}

\* _tag_values(payload, tag_name)
tag_values(payload, tag_name) ==
    IF tag_name \in payload.tags THEN payload[tag_name] ELSE <<>>

\* `uri in {"UNKNOWN", "root", "/*"} or uri.startswith("/actuator")`
uri_skipped(uri) ==
    uri \in {<<"UNKNOWN">>, <<"root">>, <<"/*">>} \/ (uri # <<>> /\ Head(uri) = "/actuator")

\* uri_candidates[: _MAX_ENDPOINTS]
capped(uri_candidates) ==
    SubSeq(uri_candidates, 1,
           IF Len(uri_candidates) < MAX_ENDPOINTS THEN Len(uri_candidates)
           ELSE MAX_ENDPOINTS)

\* the (uri, method) pairs in the order of the two for loops
RECURSIVE endpoint_pairs(_, _)
endpoint_pairs(uris, methods) ==
    IF uris = <<>> THEN <<>>
    ELSE (IF uri_skipped(Head(uris)) THEN <<>>
          ELSE [i \in 1..Len(methods) |-> [uri |-> Head(uris), method |-> methods[i]]])
         \o endpoint_pairs(Tail(uris), methods)

\* _query_endpoint_metrics: the datapoint (None after an HTTP error of the
\* percentile query; without outcome counts after an HTTP error of a count
\* query), or the exception of a response.json() that is outside the try
query_outcome(service_name, pair, outcome) ==
    IF outcome \in {"percentile_garbled", "count_garbled"}
    THEN [raised |-> TRUE, datapoint |-> NoValue]
    ELSE IF outcome = "percentile_http_error"
    THEN [raised |-> FALSE, datapoint |-> NoValue]
    ELSE [raised |-> FALSE,
          datapoint |-> Some([service_name |-> service_name, method |-> pair.method,
                              path |-> pair.uri,
                              counted |-> outcome # "count_http_error"])]

\* the two for loops over the pairs: the queries issued and the datapoints
\* appended, up to the first query that raises
RECURSIVE extract_from(_, _, _, _)
extract_from(service_name, pairs, i, outcomes) ==
    IF i > Len(pairs) THEN [raised |-> FALSE, metrics |-> <<>>, queries |-> <<>>]
    ELSE LET q == query_outcome(service_name, pairs[i], outcomes[i])
             rest == extract_from(service_name, pairs, i + 1, outcomes)
         IN IF q.raised
            THEN [raised |-> TRUE, metrics |-> <<>>, queries |-> <<pairs[i]>>]
            ELSE [raised |-> rest.raised,
                  metrics |-> q.datapoint \o rest.metrics,
                  queries |-> <<pairs[i]>> \o rest.queries]

\* _extract_endpoint_metrics
extract_endpoint_metrics(service_name, payload, outcomes) ==
    LET uri_candidates == tag_values(payload, "uri")
        method_candidates == tag_values(payload, "method")
    IN IF uri_candidates = <<>> \/ method_candidates = <<>>
       THEN [raised |-> FALSE, metrics |-> <<>>, queries |-> <<>>]
       ELSE extract_from(service_name,
                         endpoint_pairs(capped(uri_candidates), method_candidates),
                         1, outcomes)

NotFetched == [state |-> "pending", metrics |-> <<>>, queries |-> <<>>]

\* the pairs of a payload whose queries the sweep follows
PairsOf(payload) ==
    endpoint_pairs(capped(tag_values(payload, "uri")), tag_values(payload, "method"))

\* one service's query fails, in one of the first MaxFailing pairs, or none
FailingQueries ==
    {[service |-> None, pair |-> 0, outcome |-> "ok"]}
    \cup {[service |-> s, pair |-> i, outcome |-> o] :
             s \in ServiceNames, i \in 1..MaxFailing, o \in QueryOutcomes \ {"ok"}}

\* the sweeps followed: a metrics payload for each service and at most one
\* failing query
SweepArguments ==
    {[fn |-> "telemetry_sweep", pc |-> "gathering",
      payloads |-> [api |-> a, db |-> d, web |-> w], failing |-> f,
      fetched |-> [s \in ServiceNames |-> NotFetched],
      published |-> [s \in ServiceNames |-> NoValue]] :
        a \in TagPayloads, d \in TagPayloads, w \in TagPayloads, f \in FailingQueries}

\* how the queries of each pair of a service end in the sweep
OutcomesOf(s) ==
    [i \in 1..Len(PairsOf(invoked.payloads[s])) |->
        IF invoked.failing.service = s /\ invoked.failing.pair = i
        THEN invoked.failing.outcome ELSE "ok"]

\* _fetch_metrics of one service of the gather: the GET of the metrics URL
\* answers, and the coroutine returns (name, metrics) or ends with the
\* exception _extract_endpoint_metrics raised
fetch_metrics(s) ==
    /\ invoked.fn = "telemetry_sweep"
    /\ invoked.pc = "gathering"
    /\ invoked.fetched[s].state = "pending"
    /\ LET e == extract_endpoint_metrics(s, invoked.payloads[s], OutcomesOf(s))
       IN invoked' = [invoked EXCEPT
            !.fetched[s] = [state |-> IF e.raised THEN "raised" ELSE "metrics",
                            metrics |-> e.metrics, queries |-> e.queries]]
    /\ UNCHANGED <<env_vars, now, compose_cache, docker, docker_handles, monitor_vars,
                   trace_vars, req, probe, query, summary, lifespan, returned>>

\* the loop resumes from the gather and stores the results
telemetry_sweep_publish ==
    /\ invoked.fn = "telemetry_sweep"
    /\ invoked.pc = "gathering"
    /\ \A s \in ServiceNames : invoked.fetched[s].state # "pending"
    /\ LET results == [s \in ServiceNames |-> invoked.fetched[s].state]
           stored == telemetry_publish([s \in ServiceNames |-> NoEntry], results, 1)
       IN invoked' = [invoked EXCEPT
            !.pc = "sleeping",
            !.published = [s \in ServiceNames |->
                             IF stored[s] # NoEntry THEN Some(invoked.fetched[s].metrics)
                             ELSE NoValue]]
    /\ UNCHANGED <<env_vars, now, compose_cache, docker, docker_handles, monitor_vars,
                   trace_vars, req, probe, query, summary, lifespan, returned>>

\* ------------------------------------------------------------------------
\* _summarize_trace from the response's `data`: the list of trace objects
\* ------------------------------------------------------------------------

\* the spans of a trace object, of every process id of the payloads
TraceObjects ==
    UNION {[1..n -> [processID : ProcessIds \cup {"p0"}, duration : {50000, 300000},
                     startTime : {0, 1500}]] : n \in 0..MaxTraceSpans}

\* the responses followed: no trace object, one, or one followed by a
\* second with a span of its own
SummaryArguments ==
    {[fn |-> "summarize_trace", pc |-> "idle", data |-> d, result |-> [kind |-> "none"]] :
        d \in {<<>>}
              \cup {<<t>> : t \in TraceObjects}
              \cup {<<t, <<[processID |-> "p2", duration |-> 500000, startTime |-> 2000]>> >> :
                       t \in TraceObjects}}

\* _summarize_trace(payload, trace_id): an empty summary without data,
\* else the summary of data[0]
summarize_payload ==
    /\ invoked.fn = "summarize_trace"
    /\ invoked.pc = "idle"
    /\ LET spans == IF invoked.data = <<>> THEN <<>> ELSE trace_spans(invoked.data[1])
       IN invoked' = [invoked EXCEPT
            !.pc = "done",
            !.result = [kind |-> "TraceSummary",
                        duration_ms |-> overall_duration(spans),
                        critical_path_services |-> critical_path_services(spans),
                        spans |-> spans]]
    /\ UNCHANGED <<env_vars, now, compose_cache, docker, docker_handles, monitor_vars,
                   trace_vars, req, probe, query, summary, lifespan, returned>>

\* ------------------------------------------------------------------------
\* Initial state: the objects as lifespan_dependencies constructs them
\* ------------------------------------------------------------------------
InitServices ==
    /\ now = 0
    /\ compose_cache = {}
    /\ docker = None
    /\ docker_handles = 0
    /\ task_ref = [m \in Monitors |-> 0]
    /\ store = [m \in Monitors |-> [s \in ServiceNames |-> NoEntry]]
    /\ loops = [t \in TaskIds |-> IdleLoop]
    /\ sweeps = [m \in Monitors |-> 0]
    /\ starts = [m \in Monitors |-> 0]
    /\ stop_called = [m \in Monitors |-> FALSE]
    /\ stoppers = [c \in Callers |-> IdleCaller]
    /\ trace_client = None
    /\ http_requests = 0
    /\ req = [r \in Requests |-> IdleRequest]

\* no helper call is being followed
InitObjects ==
    /\ InitServices
    /\ probe = IdleProbe
    /\ query = IdleQuery
    /\ summary = IdleSummary
    /\ invoked = IdleCall
    /\ lifespan = IdleLifespan
    /\ returned = [m \in Monitors |-> NoMap]

Init ==
    /\ discovery_roots \in {<<>>, <<Root>>}
    /\ binary_on_path \in BOOLEAN
    /\ trace_provider_url \in {None, "http://jaeger:16686"}
    /\ engine \in {"up", "down", "misconfigured"}
    /\ compose_file = ComposeProject
    /\ InitObjects

\* ------------------------------------------------------------------------
\* Discovery under concurrent API requests
\* ------------------------------------------------------------------------
InitDiscovery ==
    /\ discovery_roots \in {<<>>, <<Root>>}
    /\ binary_on_path \in BOOLEAN
    /\ trace_provider_url = None
    /\ engine = "up"
    /\ compose_file = ComposeProject
    /\ InitObjects

NextDiscovery ==
    \/ \E r \in Requests : url_index(r)
    \/ \E r \in Requests, o \in SubprocessOutcomes : url_index_config_exit(r, o)
    \/ \E r \in Requests : request_return(r)
    \/ compose_file_edit
    \/ Tick

SpecDiscovery == InitDiscovery /\ [][NextDiscovery]_vars



\* ------------------------------------------------------------------------
\* One monitor under start(), stop() and its poll loop.  The two monitors
\* share nothing but the facade, so a behaviour follows the one that is
\* called first.  Time stands still here: a config resolved once stays
\* fresh, and a loop resolves it again only after a failed resolution.
\* ------------------------------------------------------------------------
InitMonitor ==
    /\ discovery_roots \in {<<>>, <<Root>>}
    /\ binary_on_path \in BOOLEAN
    /\ trace_provider_url = None
    /\ engine = "up"
    /\ compose_file = ComposeProject
    /\ InitObjects

Followed(m) == \A o \in Monitors \ {m} : starts[o] = 0 /\ ~stop_called[o]

NextMonitor ==
    \/ \E m \in Monitors : Followed(m) /\ start(m)
    \/ \E m \in Monitors, c \in Callers : Followed(m) /\ stop(c, m)
    \/ \E c \in Callers : stop_resume(c)
    \/ \E t \in TaskIds : poll_loop_cancelled(t)
    \/ \E t \in TaskIds : poll_loop(t)
    \/ \E t \in TaskIds, o \in SubprocessOutcomes : poll_loop_config_exit(t, o)
    \/ \E t \in TaskIds, s \in ServiceNames :
          \E o \in ProbeOutcomes(loops[t].mon) : probe_resolves(t, s, o)
    \/ \E t \in TaskIds : poll_loop_publish(t)

SpecMonitor == InitMonitor /\ [][NextMonitor]_vars

\* ------------------------------------------------------------------------
\* The health monitor polling while the Compose file is edited and the
\* cached configuration expires
\* ------------------------------------------------------------------------
InitHealthCache ==
    /\ discovery_roots = <<Root>>
    /\ binary_on_path = TRUE
    /\ trace_provider_url = None
    /\ engine = "up"
    /\ compose_file = ComposeProject
    /\ InitObjects

NextHealthCache ==
    \/ start("health")
    \/ \E t \in TaskIds : poll_loop(t)
    \/ \E t \in TaskIds, o \in SubprocessOutcomes : poll_loop_config_exit(t, o)
    \/ \E t \in TaskIds, s \in ServiceNames :
          \E o \in ProbeOutcomes(loops[t].mon) : probe_resolves(t, s, o)
    \/ \E t \in TaskIds : poll_loop_publish(t)
    \/ compose_file_edit
    \/ Tick

SpecHealthCache == InitHealthCache /\ [][NextHealthCache]_vars


\* ------------------------------------------------------------------------
\* One health probe, for every URL list and every way its URLs answer
\* ------------------------------------------------------------------------
InitProbe ==
    /\ discovery_roots = <<Root>>
    /\ binary_on_path = TRUE
    /\ trace_provider_url = None
    /\ engine = "up"
    /\ compose_file = ComposeProject
    /\ InitServices
    /\ probe \in ProbeArguments
    /\ query = IdleQuery
    /\ summary = IdleSummary
    /\ invoked = IdleCall
    /\ lifespan = IdleLifespan
    /\ returned = [m \in Monitors |-> NoMap]

NextProbe ==
    \/ probe_service
    \/ probe_service_get_done

SpecProbe == InitProbe /\ [][NextProbe]_vars

\* ------------------------------------------------------------------------
\* One endpoint datapoint, for every payload and every pair of outcome
\* counts
\* ------------------------------------------------------------------------
InitQuery ==
    /\ discovery_roots = <<Root>>
    /\ binary_on_path = TRUE
    /\ trace_provider_url = None
    /\ engine = "up"
    /\ compose_file = ComposeProject
    /\ InitServices
    /\ probe = IdleProbe
    /\ query \in {[IdleQuery EXCEPT !.payload = p] : p \in Payloads}
    /\ summary = IdleSummary
    /\ invoked = IdleCall
    /\ lifespan = IdleLifespan
    /\ returned = [m \in Monitors |-> NoMap]

NextQuery ==
    \/ query_endpoint_metrics
    \/ \E o \in {"ok", "http_error"} : query_endpoint_metrics_get_done(o)
    \/ \E n \in OutcomeCounts : query_success_count_done(n)
    \/ \E n \in OutcomeCounts : query_error_count_done(n)

SpecQuery == InitQuery /\ [][NextQuery]_vars

\* ------------------------------------------------------------------------
\* One trace summary, for every span list
\* ------------------------------------------------------------------------
InitSummary ==
    /\ discovery_roots = <<Root>>
    /\ binary_on_path = TRUE
    /\ trace_provider_url = None
    /\ engine = "up"
    /\ compose_file = ComposeProject
    /\ InitServices
    /\ probe = IdleProbe
    /\ query = IdleQuery
    /\ summary \in {[IdleSummary EXCEPT !.spans = spans] : spans \in SpanPayloads}
    /\ invoked = IdleCall
    /\ lifespan = IdleLifespan
    /\ returned = [m \in Monitors |-> NoMap]

NextSummary == summarize_trace

SpecSummary == InitSummary /\ [][NextSummary]_vars

\* ------------------------------------------------------------------------
\* One call of service_status
\* ------------------------------------------------------------------------
InitStatus ==
    /\ discovery_roots = <<Root>>
    /\ binary_on_path = TRUE
    /\ trace_provider_url = None
    /\ engine \in {"up", "down", "misconfigured"}
    /\ compose_file = ComposeProject
    /\ InitServices
    /\ probe = IdleProbe
    /\ query = IdleQuery
    /\ summary = IdleSummary
    /\ invoked \in StatusArguments
    /\ lifespan = IdleLifespan
    /\ returned = [m \in Monitors |-> NoMap]

NextStatus ==
    \/ service_status
    \/ service_status_ping_done
    \/ \E o \in {"ok", "docker_error"} : service_status_listed(o)

SpecStatus == InitStatus /\ [][NextStatus]_vars

\* ------------------------------------------------------------------------
\* One call of dependency_graph
\* ------------------------------------------------------------------------
InitGraph ==
    /\ discovery_roots \in {<<>>, <<Root>>}
    /\ binary_on_path = TRUE
    /\ trace_provider_url = None
    /\ engine = "up"
    /\ compose_file = ComposeProject
    /\ InitServices
    /\ probe = IdleProbe
    /\ query = IdleQuery
    /\ summary = IdleSummary
    /\ invoked \in GraphArguments
    /\ lifespan = IdleLifespan
    /\ returned = [m \in Monitors |-> NoMap]

NextGraph ==
    \/ dependency_graph
    \/ \E o \in SubprocessOutcomes : dependency_graph_config_exit(o)

SpecGraph == InitGraph /\ [][NextGraph]_vars

\* ------------------------------------------------------------------------
\* The application from startup to shutdown: both loops run, one request
\* at a time fetches a trace, and the server shuts down when no request is
\* being served.  Every probe of a sweep succeeds.
\* ------------------------------------------------------------------------
InitLifespan ==
    /\ discovery_roots = <<Root>>
    /\ binary_on_path \in BOOLEAN
    /\ trace_provider_url \in {None, "http://jaeger:16686"}
    /\ engine = "up"
    /\ compose_file = ComposeProject
    /\ InitObjects

Serving == lifespan.pc = "serving"

NextLifespan ==
    \/ lifespan_enter
    \/ lifespan_exit
    \/ lifespan_health_stopped
    \/ lifespan_telemetry_stopped
    \/ \E t \in TaskIds : poll_loop_cancelled(t)
    \/ \E t \in TaskIds : lifespan.pc # "constructed" /\ poll_loop(t)
    \/ \E t \in TaskIds : poll_loop_config_exit(t, "ok")
    \/ \E t \in TaskIds, s \in ServiceNames :
          \E o \in {"healthy", "metrics"} : probe_resolves(t, s, o)
    \/ \E t \in TaskIds : poll_loop_publish(t)
    \/ Serving /\ fetch_trace("r1", "abc123")
    \/ \E o \in {"ok", "transport_error"} : fetch_trace_get_done("r1", o)
    \/ client_ping_done("r1")
    \/ logs_for_trace_config_exit("r1", "ok")
    \/ logs_for_trace_done("r1", "ok")
    \/ request_return("r1")

SpecLifespan == InitLifespan /\ [][NextLifespan]_vars

\* ------------------------------------------------------------------------
\* The facade calls that need the Docker Engine, interleaved: two requests
\* whose fetch_trace goes to logs_for_trace, and a service_status call (as
\* list_services makes for every service)
\* ------------------------------------------------------------------------
InitClient ==
    /\ discovery_roots = <<Root>>
    /\ binary_on_path = TRUE
    /\ trace_provider_url = None
    /\ engine \in {"up", "down", "misconfigured"}
    /\ compose_file = ComposeProject
    /\ InitServices
    /\ probe = IdleProbe
    /\ query = IdleQuery
    /\ summary = IdleSummary
    /\ invoked \in {a \in StatusArguments : Len(a.containers) <= 1}
    /\ lifespan = IdleLifespan
    /\ returned = [m \in Monitors |-> NoMap]

NextClient ==
    \/ \E r \in Requests, id \in TraceIds : fetch_trace(r, id)
    \/ \E r \in Requests : client_ping_done(r)
    \/ \E r \in Requests, o \in SubprocessOutcomes : logs_for_trace_config_exit(r, o)
    \/ \E r \in Requests, o \in {"ok", "docker_error"} : logs_for_trace_done(r, o)
    \/ \E r \in Requests : request_return(r)
    \/ service_status
    \/ service_status_ping_done
    \/ \E o \in {"ok", "docker_error"} : service_status_listed(o)

SpecClient == InitClient /\ [][NextClient]_vars

\* ------------------------------------------------------------------------
\* One monitor's loop, started once, and a reader of its latest() who
\* changes the entries of two of the services.  Every probe of a sweep
\* succeeds.
\* ------------------------------------------------------------------------
InitReaders ==
    /\ discovery_roots = <<Root>>
    /\ binary_on_path = TRUE
    /\ trace_provider_url = None
    /\ engine = "up"
    /\ compose_file = ComposeProject
    /\ InitObjects

NextReaders ==
    \/ \E m \in Monitors : Followed(m) /\ starts[m] = 0 /\ start(m)
    \/ \E t \in TaskIds : poll_loop(t)
    \/ \E t \in TaskIds : poll_loop_config_exit(t, "ok")
    \/ \E t \in TaskIds, s \in ServiceNames :
          \E o \in {"healthy", "metrics"} : probe_resolves(t, s, o)
    \/ \E t \in TaskIds : poll_loop_publish(t)
    \/ \E m \in Monitors : Followed(m) /\ reader_latest(m)
    \/ \E m \in Monitors, s \in {"api", "db"}, e \in {NoEntry, ReaderEntry} :
          reader_assigns(m, s, e)
    \/ \E m \in Monitors, s \in {"api", "db"} : reader_appends(m, s)

SpecReaders == InitReaders /\ [][NextReaders]_vars

\* ------------------------------------------------------------------------
\* One call of _parse_ports
\* ------------------------------------------------------------------------
InitPorts ==
    /\ discovery_roots = <<Root>>
    /\ binary_on_path = TRUE
    /\ trace_provider_url = None
    /\ engine = "up"
    /\ compose_file = ComposeProject
    /\ InitServices
    /\ probe = IdleProbe
    /\ query = IdleQuery
    /\ summary = IdleSummary
    /\ invoked \in PortArguments
    /\ lifespan = IdleLifespan
    /\ returned = [m \in Monitors |-> NoMap]

NextPorts == parse_ports_call

SpecPorts == InitPorts /\ [][NextPorts]_vars

\* ------------------------------------------------------------------------
\* One call of _build_metadata
\* ------------------------------------------------------------------------
InitMetadata ==
    /\ discovery_roots = <<Root>>
    /\ binary_on_path = TRUE
    /\ trace_provider_url = None
    /\ engine = "up"
    /\ compose_file = ComposeProject
    /\ InitServices
    /\ probe = IdleProbe
    /\ query = IdleQuery
    /\ summary = IdleSummary
    /\ invoked \in MetadataArguments
    /\ lifespan = IdleLifespan
    /\ returned = [m \in Monitors |-> NoMap]

NextMetadata == build_metadata

SpecMetadata == InitMetadata /\ [][NextMetadata]_vars

\* ------------------------------------------------------------------------
\* API requests to the lifecycle routes and to the routes over discovery
\* ------------------------------------------------------------------------
InitApi ==
    /\ discovery_roots \in {<<>>, <<Root>>}
    /\ binary_on_path \in BOOLEAN
    /\ trace_provider_url = None
    /\ engine \in {"up", "down", "misconfigured"}
    /\ compose_file = ComposeProject
    /\ InitServices
    /\ probe = IdleProbe
    /\ query = IdleQuery
    /\ summary = IdleSummary
    /\ invoked \in ApiArguments
    /\ lifespan = IdleLifespan
    /\ returned = [m \in Monitors |-> NoMap]

NextApi ==
    \/ \E route \in DOMAIN LifecycleRoutes : start_services(route)
    \/ \E returncode \in {0, 1} : compose_command_exit(returncode)
    \/ \E route \in DiscoveryRoutes : discovery_route(route)
    \/ \E o \in SubprocessOutcomes : discovery_route_config_exit(o)
    \/ list_services_enriched

SpecApi == InitApi /\ [][NextApi]_vars

\* ------------------------------------------------------------------------
\* One telemetry sweep with at most one failing query
\* ------------------------------------------------------------------------
InitTelemetrySweep ==
    /\ discovery_roots = <<Root>>
    /\ binary_on_path = TRUE
    /\ trace_provider_url = None
    /\ engine = "up"
    /\ compose_file = ComposeProject
    /\ InitServices
    /\ probe = IdleProbe
    /\ query = IdleQuery
    /\ summary = IdleSummary
    /\ invoked \in SweepArguments
    /\ lifespan = IdleLifespan
    /\ returned = [m \in Monitors |-> NoMap]

NextTelemetrySweep ==
    \/ \E s \in ServiceNames : fetch_metrics(s)
    \/ telemetry_sweep_publish

SpecTelemetrySweep == InitTelemetrySweep /\ [][NextTelemetrySweep]_vars

\* ------------------------------------------------------------------------
\* One summary of a backend response
\* ------------------------------------------------------------------------
InitPayload ==
    /\ discovery_roots = <<Root>>
    /\ binary_on_path = TRUE
    /\ trace_provider_url = None
    /\ engine = "up"
    /\ compose_file = ComposeProject
    /\ InitServices
    /\ probe = IdleProbe
    /\ query = IdleQuery
    /\ summary = IdleSummary
    /\ invoked \in SummaryArguments
    /\ lifespan = IdleLifespan
    /\ returned = [m \in Monitors |-> NoMap]

NextPayload == summarize_payload

SpecPayload == InitPayload /\ [][NextPayload]_vars

\* ------------------------------------------------------------------------
\* The two loops while the Docker Engine cannot be reached (it is down, or
\* the client environment is unusable): the calls of SpecMonitor with one
\* caller of stop(), discovery roots configured
\* ------------------------------------------------------------------------
InitEngine ==
    /\ discovery_roots = <<Root>>
    /\ binary_on_path \in BOOLEAN
    /\ trace_provider_url = None
    /\ engine \in {"down", "misconfigured"}
    /\ compose_file = ComposeProject
    /\ InitObjects

NextEngine ==
    \/ \E m \in Monitors : Followed(m) /\ start(m)
    \/ \E m \in Monitors : Followed(m) /\ stop("c1", m)
    \/ stop_resume("c1")
    \/ \E t \in TaskIds : poll_loop_cancelled(t)
    \/ \E t \in TaskIds : poll_loop(t)
    \/ \E t \in TaskIds, o \in SubprocessOutcomes : poll_loop_config_exit(t, o)
    \/ \E t \in TaskIds, s \in ServiceNames :
          \E o \in ProbeOutcomes(loops[t].mon) : probe_resolves(t, s, o)
    \/ \E t \in TaskIds : poll_loop_publish(t)

SpecEngine == InitEngine /\ [][NextEngine]_vars

\* ------------------------------------------------------------------------
\* The trace service under concurrent fetch_trace requests
\* ------------------------------------------------------------------------
InitTrace ==
    /\ discovery_roots \in {<<>>, <<Root>>}
    /\ binary_on_path \in BOOLEAN
    /\ trace_provider_url \in {None, "http://jaeger:16686"}
    /\ engine \in {"up", "down", "misconfigured"}
    /\ compose_file = ComposeProject
    /\ InitObjects

NextTrace ==
    \/ \E r \in Requests, id \in TraceIds : fetch_trace(r, id)
    \/ \E r \in Requests, o \in GetOutcomes : fetch_trace_get_done(r, o)
    \/ \E r \in Requests : client_ping_done(r)
    \/ \E r \in Requests, o \in SubprocessOutcomes : logs_for_trace_config_exit(r, o)
    \/ \E r \in Requests, o \in {"ok", "docker_error"} : logs_for_trace_done(r, o)
    \/ \E r \in Requests : request_return(r)
    \/ Tick

SpecTrace == InitTrace /\ [][NextTrace]_vars

\* ------------------------------------------------------------------------
\* The whole system
\* ------------------------------------------------------------------------
Next ==
    \/ NextDiscovery
    \/ NextTrace
    \/ \E m \in Monitors : start(m)
    \/ \E m \in Monitors, c \in Callers : stop(c, m)
    \/ \E c \in Callers : stop_resume(c)
    \/ \E t \in TaskIds : poll_loop_cancelled(t)
    \/ \E t \in TaskIds : poll_loop(t)
    \/ \E t \in TaskIds, o \in SubprocessOutcomes : poll_loop_config_exit(t, o)
    \/ \E t \in TaskIds, s \in ServiceNames :
          \E o \in ProbeOutcomes(loops[t].mon) : probe_resolves(t, s, o)
    \/ \E t \in TaskIds : poll_loop_publish(t)

Spec == Init /\ [][Next]_vars


\* ------------------------------------------------------------------------
\* Properties
\* ------------------------------------------------------------------------
LoopsOf(m) == {t \in TaskIds : loops[t].mon = m}

\* the step in which a loop resumes from its gather
SweepCompletes(t) ==
    /\ loops[t].pc = "probing"
    /\ loops'[t].pc \notin {"probing", "cancelling"}

FetchTraceRequests == {r \in Requests : req[r].op = "fetch_trace"}

\* C1: two discovery calls that overlap and both need the merged
\* configuration of the root never have two `docker compose config`
\* subprocesses running for it.
C1_NoDuplicateResolution == Cardinality(ResolvingRequests) <= 1

\* C2: when a health sweep in which some probe raised completes, every
\* snapshot the other probes returned is in the cache, the loop is asleep
\* (not ended), and the step that ends a sleep begins the next sweep.
C2_HealthSweepIsolation ==
    [][\A t \in LoopsOf("health") :
          /\ (SweepCompletes(t) /\ \E s \in ServiceNames : loops[t].results[s] = "raised")
                => /\ loops'[t].pc = "sleeping"
                   /\ \A s \in ServiceNames :
                         loops[t].results[s] \in {"healthy", "unhealthy"}
                            => store'["health"][s] =
                                  [sweep |-> loops[t].sweep, value |-> loops[t].results[s]]
          /\ (loops[t].pc = "sleeping" /\ loops'[t].pc \notin {"sleeping", "cancelling"})
                => /\ sweeps'["health"] = sweeps["health"] + 1
                   /\ loops'[t].sweep = sweeps'["health"]
      ]_vars

\* a health loop asleep after a sweep that stored one service's snapshot
\* while the probe of another raised and left its older snapshot in place
C2_Witness ==
    \E t \in LoopsOf("health") : \E s1, s2 \in ServiceNames :
        /\ loops[t].pc = "sleeping"
        /\ loops[t].sweep = sweeps["health"]
        /\ store["health"][s1].sweep = loops[t].sweep
        /\ store["health"][s2].sweep \notin {0, loops[t].sweep}

\* C3: when a telemetry sweep completes, the metrics list of every service
\* whose fetch succeeded is in the cache, wherever a failing service stands
\* in the service list.
C3_TelemetrySweepIsolation ==
    [][\A t \in LoopsOf("telemetry") :
          SweepCompletes(t)
             => \A s \in ServiceNames :
                   loops[t].results[s] = "metrics"
                      => store'["telemetry"][s] = [sweep |-> loops[t].sweep, value |-> "metrics"]
      ]_vars

\* C4: a poll loop ends only by cancellation: an error met while listing
\* services, or any other error of a sweep, never ends it.
C4_LoopsEndOnlyByCancellation ==
    \A t \in TaskIds : Done(t) => loops[t].pc = "cancelled"

\* C5: the cache changes only in the step in which a sweep whose probes
\* have all resolved publishes, and that step stores the result of every
\* service that returned one: latest() never shows part of a sweep.
C5_SweepPublishedWhole ==
    [][\A m \in Monitors :
          store'[m] # store[m]
             => \E t \in LoopsOf(m) :
                   /\ loops[t].pc = "probing"
                   /\ gather_done(t)
                   /\ \A s \in ServiceNames :
                         loops[t].results[s] \in {"healthy", "unhealthy", "metrics"}
                            => store'[m][s].sweep = loops[t].sweep
      ]_vars

\* C6: after any number of start() calls with no stop() call, exactly one
\* loop task exists, and it is the one self._task holds.
C6_StartIdempotent ==
    \A m \in Monitors :
        (starts[m] >= 1 /\ ~stop_called[m])
           => /\ Cardinality(LoopsOf(m)) = 1
              /\ task_ref[m] \in LoopsOf(m)

\* start() was called twice in a row and one loop task exists
C6_Witness ==
    \E m \in Monitors :
        /\ starts[m] >= 2
        /\ ~stop_called[m]
        /\ Cardinality(LoopsOf(m)) = 1
        /\ Alive(task_ref[m])

\* C7: when a monitor is in the stopped state (self._task is None), as it
\* is once stop() has returned and until the next start(), none of its
\* loop tasks is alive, so no sweep is in progress and nothing writes
\* the cache.
C7_StoppedMeansNoLoop ==
    \A m \in Monitors :
        task_ref[m] = 0 => \A t \in LoopsOf(m) : ~Alive(t)

\* C8: every fetch_trace call ends with a result of mode "trace" or
\* "logs", never with an error.
C8_FetchTraceNeverFails ==
    \A r \in FetchTraceRequests :
        req[r].pc = "done" => req[r].response.mode \in {"trace", "logs"}

HealthCacheNames == DOMAIN latest("health")

\* C11: the health cache holds snapshots for known services only: when a
\* sweep completes, every name with a snapshot is one of the services that
\* sweep discovered, and a snapshot stored by the sweep is wholly the
\* sweep's own.
C11_HealthCacheKnownServices ==
    [][\A t \in LoopsOf("health") :
          SweepCompletes(t)
             => \A s \in ServiceNames :
                   /\ s \in HealthCacheNames' => loops[t].results[s] # "none"
                   /\ loops[t].results[s] \in {"healthy", "unhealthy"}
                         => store'["health"][s] =
                               [sweep |-> loops[t].sweep, value |-> loops[t].results[s]]
      ]_vars

\* the probe has returned or raised
ProbeDone == probe.pc = "done"

\* the first URL of the list whose GET ends in a 2xx with a JSON body
FirstResponding ==
    CHOOSE i \in 1..Len(probe.urls) :
        /\ probe.responses[i] = "ok"
        /\ \A j \in 1..(i - 1) : probe.responses[j] # "ok"

\* C12: a probe all of whose URLs fail (transport error, non-2xx status or
\* a 2xx body that cannot be parsed) returns an unhealthy snapshot whose
\* url is the first URL and whose details list one error per URL tried.
C12_AllUrlsFailUnhealthy ==
    (ProbeDone /\ \A i \in 1..Len(probe.urls) : probe.responses[i] # "ok")
       => /\ probe.result.kind = "snapshot"
          /\ probe.result.healthy = FALSE
          /\ probe.result.url = probe.urls[1]
          /\ Len(probe.result.details) = Len(probe.urls)
          /\ \A i \in 1..Len(probe.urls) : probe.result.details[i].url = probe.urls[i]

\* C13: URLs are requested in list order, one after the other; a probe
\* with a URL that answers 2xx with a parseable body returns a healthy
\* snapshot of the first such URL with that response's status code, having
\* requested the URLs up to it and none after it.
C13_FirstRespondingUrlWins ==
    /\ probe.requested = SubSeq(probe.urls, 1, Len(probe.requested))
    /\ (ProbeDone /\ \E i \in 1..Len(probe.urls) : probe.responses[i] = "ok")
          => /\ probe.result = healthy_snapshot(probe.urls[FirstResponding])
             /\ probe.result.status_code = 200
             /\ probe.requested = SubSeq(probe.urls, 1, FirstResponding)

\* the step in which request r calls url_index() with roots configured and
\* the Compose binary on the path
DiscoveryCalled(r) ==
    /\ req[r].pc = "idle"
    /\ req'[r].op = "url_index"
    /\ discovery_roots # <<>>
    /\ binary_on_path

\* C14: a discovery call made while the entry of the root is younger than
\* config_cache_ttl_seconds returns that entry's config and starts no
\* subprocess; a call made when the entry's age has reached the TTL, or
\* with no entry, starts a subprocess and returns what it resolved.
C14_ConfigCacheTTL ==
    [][\A r \in Requests :
          /\ DiscoveryCalled(r)
                => IF \E e \in compose_cache :
                         e.root = Root /\ now - e.timestamp < config_cache_ttl_seconds
                   THEN /\ req'[r].pc = "done"
                        /\ ~req'[r].spawned
                        /\ \E e \in compose_cache :
                              /\ e.root = Root
                              /\ req'[r].response = IndexResponse(e.config)
                   ELSE /\ req'[r].pc = "resolving"
                        /\ req'[r].spawned
          /\ (req[r].op = "url_index" /\ req[r].pc = "resolving"
                 /\ req'[r].response.mode = "index")
                => req'[r].response = IndexResponse(compose_file)
      ]_vars

\* one call was answered from the cache, and a later call, made when the
\* entry's age had reached the TTL, is resolving the config again
C14_Witness ==
    \E r1, r2 \in Requests :
        /\ req[r1].op = "url_index" /\ req[r1].pc = "done"
        /\ req[r1].response.mode = "index"
        /\ ~req[r1].spawned
        /\ req[r2].op = "url_index" /\ req[r2].pc = "resolving"
        /\ \E e \in compose_cache :
              req[r2].called_at - e.timestamp >= config_cache_ttl_seconds

\* C20: a discovery call with no roots configured fails with
\* ComposeDiscoveryRootsMissing, and one with roots but no Compose binary
\* with ComposeBinaryMissing; neither starts a subprocess nor changes the
\* config cache.
C20_DiscoveryDiagnostics ==
    [][\A r \in Requests :
          (req[r].pc = "idle" /\ req'[r].op = "url_index"
              /\ (discovery_roots = <<>> \/ ~binary_on_path))
             => /\ req'[r].pc = "done"
                /\ req'[r].response =
                      ErrorResponse(IF discovery_roots = <<>>
                                    THEN "ComposeDiscoveryRootsMissing"
                                    ELSE "ComposeBinaryMissing", "discovered_services")
                /\ ~req'[r].spawned
                /\ ResolvingRequests' = ResolvingRequests
                /\ compose_cache' = compose_cache
      ]_vars

\* a call failed with ComposeDiscoveryRootsMissing although the binary is
\* missing too
C20_Witness ==
    \E r \in Requests :
        /\ discovery_roots = <<>>
        /\ ~binary_on_path
        /\ req[r].pc = "done"
        /\ req[r].response = ErrorResponse("ComposeDiscoveryRootsMissing", "discovered_services")

\* C21: when the `docker compose config` subprocess of a discovery call
\* exits non-zero, the call raises ComposeConfigFailed whose detail is the
\* stderr the subprocess wrote, and the config cache is what it was before
\* the exit: no entry is written, replaced or removed.
C21_ConfigFailureNotCached ==
    [][\A r \in Requests :
          (req[r].op = "url_index" /\ req[r].pc = "resolving" /\ req'[r].exit = "nonzero")
             => /\ req'[r].pc = "done"
                /\ req'[r].response.mode = "error"
                /\ req'[r].response.code = "ComposeConfigFailed"
                /\ req'[r].response.detail = req'[r].stderr
                /\ req'[r].stderr \in StderrTexts
                /\ compose_cache' = compose_cache
      ]_vars

\* a call failed with ComposeConfigFailed while the cache still holds the
\* entry an earlier resolution wrote
C21_Witness ==
    \E r \in Requests :
        /\ req[r].op = "url_index" /\ req[r].pc = "done"
        /\ req[r].exit = "nonzero"
        /\ req[r].response.code = "ComposeConfigFailed"
        /\ \E e \in compose_cache : e.root = Root /\ e.config = ComposeProject

\* a datapoint was returned
QueryDone == query.pc = "done" /\ query.result.kind = "EndpointMetrics"

\* the payload carries the median in the given shape
MedianShape(shape) ==
    \E count \in {NoValue, Some(0), Some(10)} :
        query.payload.measurements = Measurements(count, shape)

\* C15: the error_rate of a datapoint is error_count / (success_count +
\* error_count) when that sum is positive and null when both counts are
\* zero or unavailable, whatever the COUNT statistic; no rate has a zero
\* denominator.
C15_ErrorRateNullWithoutOutcomes ==
    QueryDone
       => LET outcomes == or_zero(query.success_count) + or_zero(query.error_count)
          IN /\ query.result.error_rate =
                   IF outcomes > 0
                   THEN Some([num |-> or_zero(query.error_count), den |-> outcomes])
                   ELSE NoValue
             /\ query.result.error_rate # NoValue
                   => query.result.error_rate[1].den # 0

\* C16: a median of 0.2 seconds gives p50_ms = 200.0 both as a
\* PERCENTILE_50 statistic and as a VALUE measurement with percentile
\* "0.5".
C16_PercentileNormalization ==
    (QueryDone /\ (MedianShape("PERCENTILE_50") \/ MedianShape("VALUE")))
       => query.result.p50_ms = Some(200000)

\* C17: once a telemetry sweep has completed, latest() shows, for every
\* service whose metrics fetch succeeded in it, the list that sweep
\* produced and nothing of an earlier sweep.
C17_MetricsListReplacedWhole ==
    [][\A t \in LoopsOf("telemetry") :
          SweepCompletes(t)
             => \A s \in ServiceNames :
                   loops[t].results[s] = "metrics"
                      => /\ s \in DOMAIN latest("telemetry")'
                         /\ latest("telemetry")'[s].sweep = loops[t].sweep
      ]_vars

\* a summary was returned
SummaryDone == summary.pc = "done"

\* the services of the summary's spans
SpanServices == {summary.result.spans[i].service : i \in 1..Len(summary.result.spans)}

\* the summed span duration of a service, and the span it first appears in
RECURSIVE DurationSum(_, _)
DurationSum(service, i) ==
    IF i > Len(summary.result.spans) THEN 0
    ELSE (IF summary.result.spans[i].service = service
          THEN summary.result.spans[i].duration_ms ELSE 0) + DurationSum(service, i + 1)

FirstSpan(service) ==
    CHOOSE i \in 1..Len(summary.result.spans) :
        /\ summary.result.spans[i].service = service
        /\ \A j \in 1..(i - 1) : summary.result.spans[j].service # service

\* a ranks before b: a larger sum, or the same sum and an earlier first span
RanksBefore(a, b) ==
    \/ DurationSum(a, 1) > DurationSum(b, 1)
    \/ DurationSum(a, 1) = DurationSum(b, 1) /\ FirstSpan(a) < FirstSpan(b)

\* C18: critical_path_services lists at most three distinct services, all
\* three when the trace has as many; each ranks before the ones listed
\* after it and before every service left out, by summed span duration and,
\* for equal sums, by first appearance among the spans.
C18_CriticalPathTopThree ==
    SummaryDone
       => LET path == summary.result.critical_path_services
          IN /\ Len(path) = IF Cardinality(SpanServices) < 3
                            THEN Cardinality(SpanServices) ELSE 3
             /\ \A i \in 1..Len(path) : path[i] \in SpanServices
             /\ \A i, j \in 1..Len(path) : i < j => RanksBefore(path[i], path[j])
             /\ \A i \in 1..Len(path) :
                   \A other \in SpanServices \ {path[k] : k \in 1..Len(path)} :
                      RanksBefore(path[i], other)

\* four services, the third and the fourth by sum with equal sums: the one
\* that appears first is on the path, the other is left out
C18_Witness ==
    /\ SummaryDone
    /\ Cardinality(SpanServices) = 4
    /\ summary.result.critical_path_services = <<"A", "unknown", "B">>
    /\ DurationSum("A", 1) = 500000
    /\ DurationSum("unknown", 1) = 300000
    /\ DurationSum("B", 1) = 50000
    /\ DurationSum("C", 1) = 50000
    /\ FirstSpan("B") < FirstSpan("C")
    /\ FirstSpan("C") < FirstSpan("A")

\* C19: duration_ms is the latest end (start + duration) minus the
\* earliest start over the spans of the summary, 0 for a trace without
\* spans, and never negative.
C19_OverallDuration ==
    SummaryDone
       => LET spans == summary.result.spans
              Ends == {spans[i].start_time_ms * 1000 + spans[i].duration_ms : i \in 1..Len(spans)}
              Starts == {spans[i].start_time_ms * 1000 : i \in 1..Len(spans)}
          IN /\ summary.result.duration_ms >= 0
             /\ IF spans = <<>>
                THEN summary.result.duration_ms = 0
                ELSE summary.result.duration_ms =
                        (CHOOSE e \in Ends : \A x \in Ends : x <= e)
                        - (CHOOSE b \in Starts : \A x \in Starts : b <= x)

\* a trace whose earliest span is not its first and whose latest end
\* belongs to another span: it lasts longer than any of its spans
C19_Witness ==
    /\ SummaryDone
    /\ Len(summary.result.spans) >= 2
    /\ summary.result.spans[1].start_time_ms = 2
    /\ \E i \in 2..Len(summary.result.spans) : summary.result.spans[i].start_time_ms = 0
    /\ \A i \in 1..Len(summary.result.spans) :
          summary.result.duration_ms > summary.result.spans[i].duration_ms

\* service_status returned
StatusDone == invoked.fn = "service_status" /\ invoked.pc = "done" /\ invoked.raised = None

\* the number of listed containers with the given status
Occurrences(status) ==
    Cardinality({i \in 1..Len(invoked.containers) : invoked.containers[i] = status})

\* the position of the first listed container with the given status
FirstListed(status) ==
    CHOOSE i \in 1..Len(invoked.containers) :
        /\ invoked.containers[i] = status
        /\ \A j \in 1..(i - 1) : invoked.containers[j] # status

\* C22: service_status returns the metadata object it was given, with the
\* timestamp of its last state change set to the time of the call; its
\* status is `stopped` when no container is listed, and otherwise the status
\* most of the listed containers have, the one listed first among those
\* with the highest count.
C22_ServiceStatusMajority ==
    StatusDone
       => LET metadata == invoked.objects[invoked.returned]
          IN /\ invoked.returned = invoked.service
             /\ Len(invoked.objects) = 1
             /\ metadata.last_state_change = invoked.clock
             /\ IF invoked.containers = <<>> THEN metadata.status = "stopped"
                ELSE /\ Occurrences(metadata.status) > 0
                     /\ \A other \in ContainerStatuses \ {metadata.status} :
                           \/ Occurrences(other) < Occurrences(metadata.status)
                           \/ /\ Occurrences(other) = Occurrences(metadata.status)
                              /\ FirstListed(metadata.status) < FirstListed(other)

\* a call returned after two statuses tied for the highest count, some time
\* after the metadata was constructed
C22_Witness ==
    /\ StatusDone
    /\ invoked.objects[invoked.returned].last_state_change > 0
    /\ \E a, b \in ContainerStatuses :
          /\ a # b
          /\ Occurrences(a) = Occurrences(b)
          /\ Occurrences(a) > 0
          /\ \A c \in ContainerStatuses : Occurrences(c) <= Occurrences(a)

\* dependency_graph returned
GraphDone == invoked.fn = "dependency_graph" /\ invoked.pc = "done" /\ invoked.raised = None

\* the members of a sequence
Members(seq) == {seq[i] : i \in 1..Len(seq)}

\* b is in the depends_on of service a
DependsOn(a, b) ==
    /\ invoked.payloads[a].kind \in {"dict", "list"}
    /\ b \in Members(invoked.payloads[a].names)

\* C23: in the graph dependency_graph returns, a is listed in reverse[b]
\* exactly when there is an edge from a to b, and there is one exactly when
\* b is in a's depends_on; every list of reverse is non-empty, sorted and
\* without duplicates; `api` depending on `db` alone gives the one edge
\* {from: api, to: db} and reverse {db: [api]}.
C23_ReverseIsInverse ==
    GraphDone
       => LET graph == invoked.result
          IN /\ \A a, b \in ServiceNames :
                   /\ (b \in DOMAIN graph.reverse /\ a \in Members(graph.reverse[b]))
                         <=> [from |-> a, to |-> b] \in Members(graph.edges)
                   /\ [from |-> a, to |-> b] \in Members(graph.edges) <=> DependsOn(a, b)
             /\ \A e \in Members(graph.edges) : e.from \in ServiceNames /\ e.to \in ServiceNames
             /\ DOMAIN graph.reverse \subseteq ServiceNames
             /\ \A b \in DOMAIN graph.reverse :
                   /\ graph.reverse[b] # <<>>
                   /\ \A i, j \in 1..Len(graph.reverse[b]) :
                         i < j => NameRank(graph.reverse[b][i]) < NameRank(graph.reverse[b][j])
             /\ (\A a, b \in ServiceNames : DependsOn(a, b) <=> (a = "api" /\ b = "db"))
                   => /\ Members(graph.edges) = {[from |-> "api", to |-> "db"]}
                      /\ DOMAIN graph.reverse = {"db"}
                      /\ graph.reverse["db"] = <<"api">>

\* a graph was returned in which `db` has the dependents `api` and `web`,
\* and `web` depends on `api` too
C23_Witness ==
    /\ GraphDone
    /\ "db" \in DOMAIN invoked.result.reverse
    /\ invoked.result.reverse["db"] = <<"api", "web">>
    /\ [from |-> "web", to |-> "api"] \in Members(invoked.result.edges)

\* the context manager's exit has ended
ShutdownEnded == lifespan.pc \in {"closed", "raised"}

\* C24: once the shutdown has ended, both loop tasks have ended and the
\* Docker client handle and the trace HTTP client are released; and the
\* handles are not released while a loop task has yet to end.
C24_LoopsStopBeforeRelease ==
    /\ ShutdownEnded
          => /\ \A t \in TaskIds : ~Alive(t)
             /\ lifespan.released
             /\ docker = None
             /\ trace_client = None
    /\ lifespan.released => \A t \in TaskIds : ~Alive(t)

\* C25: whatever facade calls need the Docker Engine and however they
\* interleave, from_env() returns at most one handle, on the first call
\* that finds none cached, and a cached handle is never replaced: every
\* later call gets that handle.
C25_OneClientHandle ==
    [][/\ docker_handles' <= 1
       /\ docker_handles' > docker_handles => docker = None /\ docker' # None
       /\ docker # None => docker' = docker /\ docker_handles' = docker_handles
      ]_vars

\* one handle was constructed and three calls hold it: a request pinging
\* it, a request past _client() without a ping, and a service_status call
\* listing containers
C25_Witness ==
    /\ docker_handles = 1
    /\ docker = "client"
    /\ req["r1"].pc = "pinging"
    /\ req["r2"].pc \in {"resolving", "scanning"}
    /\ invoked.pc = "listing"

\* C26: latest() returns what the cache holds, changes nothing and waits
\* for nothing; a step of the poll loop changes no map that latest() has
\* returned, and no step of a reader - a call of latest(), or adding,
\* removing or replacing an entry of a returned map, or appending to a
\* returned metrics list - changes the cache.
C26_LatestReturnsCopy ==
    [][\A m \in Monitors :
          /\ (returned[m].kind = "map" /\ loops' # loops) => View(m)' = View(m)
          /\ loops' = loops => store' = store
          /\ returned'[m].flip # returned[m].flip
                => /\ returned'[m].taken = store[m]
                   /\ View(m)' = store[m]
                   /\ UNCHANGED <<env_vars, monitor_vars, trace_vars, now, compose_cache,
                                  docker, docker_handles, req>>
      ]_vars

\* a reader holds a telemetry map of the first sweep to whose `api` list it
\* appended and whose `db` entry it deleted, while the cache holds the
\* metrics of the second sweep
C26_Witness ==
    /\ returned["telemetry"].kind = "map"
    /\ returned["telemetry"].entries["api"] = Appended([sweep |-> 1, value |-> "metrics"])
    /\ returned["telemetry"].entries["db"] = NoEntry
    /\ \A s \in ServiceNames : store["telemetry"][s] = [sweep |-> 2, value |-> "metrics"]

\* _parse_ports returned
PortsDone == invoked.fn = "parse_ports" /\ invoked.pc = "done"

\* the entries whose container port is a number
Parsable(entries) == SelectSeq(entries, LAMBDA e : e.target # NoValue)

\* C27: _parse_ports lists, in order, the container port of every entry
\* that has one and nothing for any other entry; the host mapping has
\* exactly the host ports of those entries, each mapped to the container
\* port of the last entry that names it.  "8080" gives container port 8080
\* and no mapping; "8080:80" and {published: 8080, target: 80} each give
\* container port 80 and the mapping 8080 -> 80.
C27_PortParsing ==
    PortsDone
       => LET kept == Parsable(invoked.entries)
              result == invoked.result
          IN /\ result.container_ports = [i \in 1..Len(kept) |-> kept[i].target[1]]
             /\ DOMAIN result.published =
                   {kept[i].host[1] : i \in {j \in 1..Len(kept) : kept[j].host # NoValue}}
             /\ \A h \in DOMAIN result.published :
                   \E i \in 1..Len(kept) :
                      /\ kept[i].host = Some(h)
                      /\ result.published[h] = kept[i].target[1]
                      /\ \A j \in (i + 1)..Len(kept) : kept[j].host # Some(h)
             /\ (Len(invoked.entries) = 1 /\ invoked.entries[1].entry = PortString(<<"8080">>))
                   => /\ result.container_ports = <<8080>>
                      /\ DOMAIN result.published = {}
             /\ (Len(invoked.entries) = 1
                   /\ invoked.entries[1].entry
                         \in {PortString(<<"8080", ":", "80">>),
                              PortMapping(JsonInt(8080), JsonNone, JsonInt(80), JsonNone)})
                   => /\ result.container_ports = <<80>>
                      /\ DOMAIN result.published = {8080}
                      /\ result.published[8080] = 80

\* "8080:80" was parsed next to an entry whose container port is no number
C27_Witness ==
    /\ PortsDone
    /\ Len(invoked.entries) = 2
    /\ invoked.entries[1].entry = PortString(<<"8080", ":", "80", "/tcp">>)
    /\ invoked.entries[2].entry = PortString(<<"8080", ":", "80">>)
    /\ invoked.result.container_ports = <<80>>

\* _build_metadata returned
MetadataDone == invoked.fn = "build_metadata" /\ invoked.pc = "done"

\* the host ports the entries of the payload publish
PublishedPorts ==
    {invoked.entries[i].host[1] :
        i \in {j \in 1..Len(invoked.entries) : invoked.entries[j].host # NoValue}}

\* the URLs of a list
UrlsOf(urls) == {urls[i] : i \in 1..Len(urls)}

\* the port of the internal URL: the x-dev override, else the first
\* declared container port, else 8080
InternalPort ==
    IF invoked.x_dev.port = JsonInt(9000) THEN "9000"
    ELSE IF invoked.entries # <<>> THEN port_text(invoked.entries[1].target[1])
    ELSE "8080"

\* C28: the base URLs are http://localhost:<hostPort> for every published
\* port, in ascending order of host port, followed by the one internal URL
\* http://<service>:<port>, whose port is the x-dev override, else the
\* first declared container port, else 8080 (for a service that is itself
\* called localhost the internal URL may be one of the former, and is then
\* listed once).  `web` publishing 8080 without an override gives exactly
\* http://localhost:8080, http://web:8080; `web` with no ports and x-dev
\* port 9000 gives exactly http://web:9000.
C28_BaseUrlDerivation ==
    MetadataDone
       => LET base_urls == invoked.result.base_urls
              internal == <<"http://", invoked.service_name, ":", InternalPort>>
              published == {<<"http://", "localhost", ":", port_text(p)>> : p \in PublishedPorts}
              n == Cardinality(published)
          IN /\ UrlsOf(base_urls) = published \cup {internal}
             /\ Len(base_urls) = Cardinality(published \cup {internal})
             /\ \A i \in 1..n : base_urls[i] \in published
             /\ \A i, j \in 1..n :
                   i < j => NumberTokens[base_urls[i][4]] < NumberTokens[base_urls[j][4]]
             /\ internal \notin published => base_urls[Len(base_urls)] = internal
             /\ (invoked.service_name = "web" /\ invoked.x_dev.port = JsonNone
                   /\ Len(invoked.entries) = 1
                   /\ invoked.entries[1].host = Some(8080)
                   /\ invoked.entries[1].target = Some(8080))
                   => base_urls = << <<"http://", "localhost", ":", "8080">>,
                                     <<"http://", "web", ":", "8080">> >>
             /\ (invoked.service_name = "web" /\ invoked.x_dev.port = JsonInt(9000)
                   /\ invoked.entries = <<>>)
                   => base_urls = << <<"http://", "web", ":", "9000">> >>

\* `web` publishes 9000 and 8080, in that order, and has an x-dev port
\* that is no number: two localhost URLs in ascending order and the
\* internal URL with the first declared container port
C28_Witness ==
    /\ MetadataDone
    /\ invoked.service_name = "web"
    /\ invoked.x_dev.port = JsonStr(<<"auto">>)
    /\ invoked.result.base_urls = << <<"http://", "localhost", ":", "8080">>,
                                    <<"http://", "localhost", ":", "9000">>,
                                    <<"http://", "web", ":", "80">> >>

\* no URL of the list twice
NoUrlTwice(urls) == \A i, j \in 1..Len(urls) : urls[i] = urls[j] => i = j

\* where a URL first occurs in a list
FirstOccurrence(urls, url) ==
    CHOOSE i \in 1..Len(urls) : urls[i] = url /\ \A j \in 1..(i - 1) : urls[j] # url

\* `kept` holds the URLs of `built`, in the order in which they first occur
\* there
KeepsFirstOccurrences(built, kept) ==
    /\ UrlsOf(kept) = UrlsOf(built)
    /\ \A i, j \in 1..Len(kept) :
          i < j => FirstOccurrence(built, kept[i]) < FirstOccurrence(built, kept[j])

\* the lists of the call as they are before their duplicates are dropped
BuiltLists ==
    LET parsed == parse_ports([i \in 1..Len(invoked.entries) |-> invoked.entries[i].entry])
        base_urls == invoked.result.base_urls
    IN [base |-> base_urls_built(invoked.service_name, parsed.published,
                                 parsed.container_ports, invoked.x_dev),
        health |-> health_urls_built(base_urls, invoked.service_name,
                                     parsed.container_ports, invoked.x_dev),
        docs |-> IF truthy(invoked.x_dev.docs)
                 THEN docs_urls_built(base_urls, invoked.x_dev) ELSE <<>>,
        metrics |-> metrics_urls_built(base_urls)]

\* C29: for every service configuration each derived URL list (base,
\* health, docs, metrics) holds no URL twice, and the URLs that remain are
\* in the order of their first occurrence.
C29_DedupInvariant ==
    MetadataDone
       => /\ NoUrlTwice(invoked.result.base_urls)
          /\ NoUrlTwice(invoked.result.health_urls)
          /\ NoUrlTwice(invoked.result.docs_urls)
          /\ NoUrlTwice(invoked.result.metrics_urls)
          /\ KeepsFirstOccurrences(BuiltLists.base, invoked.result.base_urls)
          /\ KeepsFirstOccurrences(BuiltLists.health, invoked.result.health_urls)
          /\ KeepsFirstOccurrences(BuiltLists.docs, invoked.result.docs_urls)
          /\ KeepsFirstOccurrences(BuiltLists.metrics, invoked.result.metrics_urls)

\* the health URL of x-dev names another host, so every base URL gives the
\* same health URL: three were built, one is listed, while the docs and
\* metrics lists keep their three different URLs
C29_Witness ==
    /\ MetadataDone
    /\ Len(BuiltLists.health) = 3
    /\ invoked.result.health_urls = << <<"http://", "status", "/", "health">> >>
    /\ Len(invoked.result.docs_urls) = 3
    /\ Len(invoked.result.metrics_urls) = 3

\* C30: every diagnostic the facade raises during an API request is
\* translated by the API layer into a client-facing error that preserves
\* the diagnostic's code, and it fails only that call: the answer to a
\* request during which a DiagnosticError was raised is an error status
\* whose body carries the code of the diagnostic.
C30_DiagnosticCodePreserved ==
    (invoked.fn = "api" /\ invoked.pc = "done" /\ invoked.raised.kind = "DiagnosticError")
       => /\ invoked.response.status >= 400
          /\ \E key \in DOMAIN invoked.response.body :
                invoked.response.body[key] = invoked.raised.code

\* the sweep has stored its results
SweepPublished == invoked.fn = "telemetry_sweep" /\ invoked.pc = "sleeping"

\* the pair of the sweep whose query fails, if the service has that many
Fails(s, i) ==
    /\ invoked.failing.service = s
    /\ invoked.failing.pair = i
    /\ i <= Len(PairsOf(invoked.payloads[s]))

\* the cache holds a datapoint of the pair
Published(s, pair) ==
    /\ invoked.published[s] # NoValue
    /\ \E j \in 1..Len(invoked.published[s][1]) :
          /\ invoked.published[s][1][j].path = pair.uri
          /\ invoked.published[s][1][j].method = pair.method

\* C31: in a telemetry sweep a failure of the percentile or outcome-count
\* query of one (service, uri, method), an HTTP error or an unparseable
\* response, yields no datapoint for that triple only: the datapoints of the
\* service's other triples and of the other services are produced and
\* published in that sweep.
C31_QueryFailureIsolated ==
    SweepPublished
       => \A s \in ServiceNames :
             \A i \in 1..Len(PairsOf(invoked.payloads[s])) :
                IF Fails(s, i)
                THEN ~Published(s, PairsOf(invoked.payloads[s])[i])
                ELSE Published(s, PairsOf(invoked.payloads[s])[i])

\* the URIs among the queries of a service
QueriedUris(s) ==
    {invoked.fetched[s].queries[i].uri : i \in 1..Len(invoked.fetched[s].queries)}

\* C32: per service and per sweep the percentile queries go to at most 12
\* URIs, never to UNKNOWN, root, /* or a path starting with /actuator, and
\* to each remaining URI once per observed method; a service whose payload
\* lacks the uri or the method tag gets no queries and no datapoints.
C32_QueriesPerService ==
    \A s \in ServiceNames :
       (invoked.fn = "telemetry_sweep" /\ invoked.fetched[s].state # "pending")
          => LET payload == invoked.payloads[s]
                 queries == invoked.fetched[s].queries
                 kept == SelectSeq(capped(payload.uri),
                                   LAMBDA uri : uri \notin {<<"UNKNOWN">>, <<"root">>, <<"/*">>}
                                                /\ Head(uri) # "/actuator")
             IN /\ Cardinality(QueriedUris(s)) <= 12
                /\ \A uri \in QueriedUris(s) :
                      uri \notin {<<"UNKNOWN">>, <<"root">>, <<"/*">>} /\ Head(uri) # "/actuator"
                /\ ("uri" \notin payload.tags \/ "method" \notin payload.tags)
                      => queries = <<>> /\ invoked.fetched[s].metrics = <<>>
                /\ ({"uri", "method"} \subseteq payload.tags)
                      => \A u \in 1..Len(kept) : \A m \in 1..Len(payload.method) :
                            Cardinality({i \in 1..Len(queries) :
                                            /\ queries[i].uri = kept[u]
                                            /\ queries[i].method = payload.method[m]}) = 1

\* the step ends a sweep of the loop otherwise than by cancellation
SweepEnds(t) ==
    /\ \/ loops'[t].sweep # loops[t].sweep
       \/ loops[t].pc \in {"resolving", "probing"}
    /\ loops'[t].pc \notin {"resolving", "probing", "cancelling", "cancelled"}

\* C33: in each poll loop every sweep, whether it succeeded, was skipped
\* because listing services failed or met an unexpected error, is followed
\* by the sleep of the interval before the next sweep starts: a sweep
\* starts only in a loop that was just created or is asleep, and a sweep
\* that ends leaves the loop asleep.
C33_SleepAfterEverySweep ==
    [][\A t \in TaskIds :
          /\ loops'[t].sweep # loops[t].sweep => loops[t].pc \in {"created", "sleeping"}
          /\ SweepEnds(t) => loops'[t].pc = "sleeping"
      ]_vars

\* C34: a sweep that stop() cancels while its probes are in flight
\* publishes none of its results: neither the cancellation nor the end of
\* the cancelled loop changes a cache, and no entry of the cache is of the
\* sweep that was abandoned.
C34_CancelledSweepNotPublished ==
    [][\A t \in TaskIds :
          /\ (loops[t].pc # "cancelling" /\ loops'[t].pc = "cancelling") => store' = store
          /\ (loops[t].pc = "cancelling" /\ loops'[t].pc = "cancelled")
                => /\ store' = store
                   /\ loops[t].abandoned
                         => \A s \in ServiceNames :
                               store'[loops[t].mon][s].sweep # loops[t].sweep
      ]_vars

\* stop() has returned after it cancelled the second sweep of a loop while
\* probes were in flight; the cache holds what the first sweep published
C34_Witness ==
    \E t \in TaskIds :
        /\ loops[t].pc = "cancelled"
        /\ loops[t].abandoned
        /\ loops[t].sweep = 2
        /\ task_ref[loops[t].mon] = 0
        /\ \A c \in Callers : stoppers[c] = IdleCaller
        /\ \A s \in ServiceNames : store[loops[t].mon][s].sweep = 1

\* the service names the process map of the payloads carries
ServiceNameOf(pid) ==
    IF pid = "p1" THEN "A" ELSE IF pid = "p2" THEN "B" ELSE IF pid = "p3" THEN "C"
    ELSE "unknown"

\* C35: every span's service is the name the trace's process map gives
\* for the span's process id, and "unknown" when that name is missing (no
\* entry for the id, or an entry without serviceName); duration and start
\* time are the backend's microseconds converted to milliseconds; only the
\* first trace object of the response is used.
C35_SpanServiceResolved ==
    (invoked.fn = "summarize_trace" /\ invoked.pc = "done" /\ invoked.data # <<>>)
       => LET first == invoked.data[1]
              spans == invoked.result.spans
          IN /\ Len(spans) = Len(first)
             /\ \A i \in 1..Len(first) :
                   /\ spans[i].service = ServiceNameOf(first[i].processID)
                   /\ spans[i].duration_ms = first[i].duration
                   /\ spans[i].start_time_ms = first[i].startTime \div 1000

\* C36: under any interleaving of start() and stop() calls on one monitor,
\* two stop() calls that overlap while they await the cancelled task and a
\* start() between their completions included, at most one loop task of
\* the monitor is alive and every live loop task is the one self._task
\* refers to.
C36_NoOrphanedLoop ==
    \A m \in Monitors :
        /\ Cardinality({t \in LoopsOf(m) : Alive(t)}) <= 1
        /\ \A t \in LoopsOf(m) : Alive(t) => task_ref[m] = t

\* a facade call has ended in DockerUnavailable
RaisedUnavailable ==
    \/ \E r \in Requests :
          /\ req[r].corr.mode = "raised"
          /\ req[r].corr.code = "DockerUnavailable"
    \/ invoked.fn = "service_status" /\ invoked.raised = "DockerUnavailable"

\* C37: once _client() has failed with DockerUnavailable - in from_env()
\* or in the first ping - self._docker holds no handle, so that a later
\* call constructs and verifies a handle again instead of getting an
\* unverified one.
C37_NoHandleAfterUnavailable ==
    RaisedUnavailable => docker = None

\* a sweep of task t ends because listing the services failed
SweepSkipped(t) ==
    /\ \/ loops[t].pc \in {"created", "sleeping"} /\ loops'[t].sweep # loops[t].sweep
       \/ loops[t].pc = "resolving"
    /\ loops'[t].pc \in {"sleeping", "crashed"}

\* what leaves service s without a result in a sweep: a health probe that
\* raised, or a metrics fetch whose every URL failed
NoResult(m) == IF m = "health" THEN "raised" ELSE "unavailable"

\* C38: a sweep in which a service produces no result - its health probe
\* raised, or every metrics URL of it failed - leaves the cached entry of
\* that service as it was, and a sweep skipped because listing the
\* services failed leaves the whole health / telemetry cache as it was.
C38_NoResultKeepsEntry ==
    [][\A t \in TaskIds :
          /\ SweepSkipped(t) => store' = store
          /\ SweepCompletes(t) =>
                \A s \in ServiceNames :
                    loops[t].results[s] = NoResult(loops[t].mon)
                        => store'[loops[t].mon][s] = store[loops[t].mon][s]
      ]_vars

\* the second sweep of each kind of loop has been published for one
\* service while another service, which gave no result in it, still has
\* its entry of the first sweep
C38_Witness ==
    \E t \in TaskIds, s \in ServiceNames, o \in ServiceNames :
        /\ loops[t].pc = "sleeping"
        /\ loops[t].sweep = 2
        /\ store[loops[t].mon][s] = [sweep |-> 1, value |-> IF loops[t].mon = "health" THEN "healthy" ELSE "metrics"]
        /\ store[loops[t].mon][o].sweep = 2

\* discovered_services returns the services to task t in this step
ServicesListed(t) ==
    \/ /\ loops[t].pc \in {"created", "sleeping"}
       /\ loops'[t].sweep # loops[t].sweep
       /\ discovered_services = "hit"
    \/ /\ loops[t].pc = "resolving"
       /\ loops'[t].pc # "cancelling"
       /\ compose_cache' # compose_cache

\* C39: the loops never use the container runtime: no step of a sweep
\* asks for a client handle, so no service_status call can have marked a
\* status, and whether or not the engine can be reached, a sweep whose
\* discovered_services returned goes on to probe the HTTP endpoints.
C39_SweepsIgnoreEngine ==
    [][/\ docker' = docker
       /\ docker_handles' = docker_handles
       /\ \A t \in TaskIds : ServicesListed(t) => loops'[t].pc = "probing"
      ]_vars

\* with the engine out of reach a loop has published its second sweep,
\* and no handle was ever constructed
C39_Witness ==
    /\ engine # "up"
    /\ docker = None
    /\ docker_handles = 0
    /\ \E t \in TaskIds, s \in ServiceNames :
          /\ loops[t].pc = "sleeping"
          /\ store[loops[t].mon][s].sweep = 2

\* C40: for every service configuration the base URL list is not empty,
\* its last entry is the internal URL, the health and the metrics list
\* hold one URL for each base URL in the order of the base URLs, and so
\* neither is empty: url_index has a baseUrl and a healthUrl for the
\* service and _probe_service needs no default URL.
C40_OneUrlPerBaseUrl ==
    MetadataDone
       => LET base_urls == invoked.result.base_urls
              internal == <<"http://", invoked.service_name, ":", InternalPort>>
          IN /\ base_urls # <<>>
             /\ base_urls[Len(base_urls)] = internal
             /\ invoked.result.health_urls = BuiltLists.health
             /\ invoked.result.metrics_urls = BuiltLists.metrics
             /\ Len(BuiltLists.health) = Len(base_urls)
             /\ Len(BuiltLists.metrics) = Len(base_urls)
             /\ invoked.result.health_urls # <<>>

====
